---- MODULE Spec2Model ----
(***************************************************************************)
(* be: an incremental formatting/linting cache.  The model covers the      *)
(* streaming content fingerprint (hashing.rs, io.rs), the fingerprints of  *)
(* the tool configuration (cache.rs), the persistent SQLite store and its  *)
(* open/reset protocol (cache.rs) and the per-file format/lint pipeline    *)
(* (format.rs, lint.rs).                                                   *)
(***************************************************************************)
EXTENDS Integers, Sequences, FiniteSets, TLC

VARIABLES
    stream,     \* SpecHash: the bytes the underlying reader will deliver
    readerA,    \* SpecHash: a Hashing reader driven by read_to_end
    readerB,    \* SpecHash: a second one, over the same bytes, other chunks
    extsA,      \* SpecExt: fourmolu_extensions over one extension list
    extsB,      \* SpecExt: fourmolu_extensions over another list
    files,      \* the work tree: path -> bytes
    fourmolu_yaml,       \* bytes of <git root>/fourmolu.yaml
    default_extensions,  \* the list in hpack-common/default-extensions.yaml
    hlint_files,         \* .hlint.yaml (if any) and hlint-rules/*.yaml
    installed,  \* tool -> what its --version prints
    db,         \* cache.sqlite: table -> [exists, rows]
    build,      \* BE_BINARY_ID of the running process
    main,       \* where main() is
    stmt,       \* the next statement of sqlite_reset (1: none has run)
    memo,       \* the OnceCells of Cache
    task,       \* the per-file (or stdin) unit of this run
    runs,       \* process runs so far
    edits,      \* edits of the work tree and tools so far
    db0,        \* history: the store when this process started
    recorded,   \* history: what each record call was made for
    race,       \* SpecRace: two record calls on one store
    cells,      \* SpecMemo: memoized values of Cache and their callers
    pool,       \* SpecPool: the permit pools, open files, children, tasks
    disk,       \* SpecWrite: the file system under write_file and a reader
    batch,      \* SpecBatch: the units of a batch and the loop awaiting them
    located,    \* SpecWhich: the directories searched and Cache::which's map
    sandbox,    \* SpecSandbox: a tool under its sandbox profile
    child,      \* SpecExec: a child process and what its caller returns
    lint,       \* SpecLint: lint units over two paths and the hlint table
    pipe,       \* SpecPipe: a tool invocation and the child's two pipes
    opens       \* SpecOpen: two processes in Cache::new on one store

hashVars == <<stream, readerA, readerB>>
extVars == <<extsA, extsB>>
worldVars == <<files, fourmolu_yaml, default_extensions, hlint_files, installed>>
procVars == <<build, main, stmt, memo, task>>
runVars == <<worldVars, db, procVars, runs, edits, db0, recorded>>
concVars == <<race, cells, pool, disk, batch>>
toolVars == <<located, sandbox, child, lint, pipe, opens>>
vars == <<hashVars, extVars, runVars, concVars, toolVars>>

Min(a, b) == IF a <= b THEN a ELSE b
Max(a, b) == IF a >= b THEN a ELSE b

\* Sequences over S of length lo..hi.
SeqsOf(S, lo, hi) == UNION {[1..n -> S] : n \in lo..hi}

----------------------------------------------------------------------------
(* Bytes and the XxHash3_64 hasher.  A byte is a bit here; the hasher is    *)
(* kept as the stream written to it, and finish() is an injective code of   *)
(* that stream (the fingerprint is treated as collision-free).              *)

Byte == {0, 1}

\* XxHash3_64::default()
hasher_default == <<>>

\* Hasher::write: the digest depends on the concatenation of all writes
hasher_write(hasher, bytes) == hasher \o bytes

RECURSIVE hasher_finish(_)
hasher_finish(hasher) ==
    IF hasher = <<>> THEN 1
    ELSE 2 * hasher_finish(SubSeq(hasher, 1, Len(hasher) - 1)) + hasher[Len(hasher)]

----------------------------------------------------------------------------
(* read_to_end over a Hashing reader.  `len`/`cap` are the destination      *)
(* Vec's length and capacity; the Vec always holds the first `len` bytes of *)
(* the content.  NumBytes stands for tokio's NUM_BYTES (32): the size of    *)
(* the probe buffer read_to_end uses while the Vec has less spare capacity  *)
(* than that.                                                               *)

NumBytes == 2

\* io.rs: with_hashing() and Vec::new()
NewReader == [len |-> 0, cap |-> 0, hasher |-> hasher_default, eof |-> FALSE]

\* read_to_end: read into the small stack buffer first?
try_small_read_first(st) == st.cap - st.len < NumBytes

\* Vec::reserve: amortised growth
reserve(st, additional) ==
    IF st.cap - st.len >= additional THEN st.cap
    ELSE Max(2 * st.cap, st.len + additional)

\* room left in the ReadBuf handed to poll_read
ReadSpace(st) == IF try_small_read_first(st) THEN NumBytes ELSE st.cap - st.len

\* the sizes a read may return: 0 only at end of input
Chunks(st, content) ==
    IF st.len = Len(content) THEN {0}
    ELSE 1..Min(ReadSpace(st), Len(content) - st.len)

\* Hashing::poll_read: after the inner read is Ready(Ok), the hasher is
\* written buf.filled(): the whole filled part of the ReadBuf it was handed.
\* The probe buffer starts empty; the ReadBuf over the Vec starts filled
\* with the `len` bytes read before.
poll_read(st, content, k) ==
    LET filled == IF try_small_read_first(st)
                  THEN SubSeq(content, st.len + 1, st.len + k)
                  ELSE SubSeq(content, 1, st.len + k)
    IN hasher_write(st.hasher, filled)

\* one iteration of read_to_end in which the reader returns k bytes
poll_read_to_end(st, content, k) ==
    [len |-> st.len + k,
     cap |-> IF try_small_read_first(st) /\ k > st.cap - st.len
             THEN reserve(st, NumBytes) ELSE st.cap,
     hasher |-> poll_read(st, content, k),
     eof |-> k = 0]

\* a regular file returns as much as fits until its end
RECURSIVE read_to_end(_, _)
read_to_end(st, content) ==
    IF st.eof THEN st
    ELSE read_to_end(
             poll_read_to_end(st, content,
                              Min(ReadSpace(st), Len(content) - st.len)),
             content)

\* io.rs read_file: (bytes, hash)
read_file(content) ==
    <<content, hasher_finish(read_to_end(NewReader, content).hasher)>>

\* Hashing::hash
hash(st) == hasher_finish(st.hasher)

----------------------------------------------------------------------------
(* SpecHash: read_stdin over one byte stream, read twice with the chunk     *)
(* sizes chosen by the pipe.                                                *)

MaxStream == 6

InitHash ==
    /\ stream \in SeqsOf(Byte, 0, MaxStream)
    /\ readerA = NewReader
    /\ readerB = NewReader

\* one read of the first read_stdin
ReadA ==
    /\ ~readerA.eof
    /\ \E k \in Chunks(readerA, stream) :
           readerA' = poll_read_to_end(readerA, stream, k)
    /\ UNCHANGED <<stream, readerB, extVars, runVars, concVars, toolVars>>

\* one read of the second read_stdin, over the same bytes
ReadB ==
    /\ readerA.eof
    /\ ~readerB.eof
    /\ \E k \in Chunks(readerB, stream) :
           readerB' = poll_read_to_end(readerB, stream, k)
    /\ UNCHANGED <<stream, readerA, extVars, runVars, concVars, toolVars>>

----------------------------------------------------------------------------
(* SpecExt: the fingerprint of the enabled-extension list                   *)
(* (Cache::fourmolu_extensions), over two lists.                            *)

MaxExts == 2
MaxExtLen == 2

ExtensionNames == SeqsOf(Byte, 1, MaxExtLen)
ExtensionLists == SeqsOf(ExtensionNames, 0, MaxExts)

\* the loop state: the list, the next element, the hasher
NewExtLoop(list) == [list |-> list, next |-> 1, hasher |-> hasher_default]

\* one iteration: hasher.write(extension_str.as_bytes())
HashExtension(loop) ==
    [loop EXCEPT !.next = @ + 1,
                 !.hasher = hasher_write(@, loop.list[loop.next])]

ExtLoopDone(loop) == loop.next > Len(loop.list)

\* the whole loop, then hasher.finish()
RECURSIVE extensions_hash(_)
extensions_hash(loop) ==
    IF ExtLoopDone(loop) THEN hasher_finish(loop.hasher)
    ELSE extensions_hash(HashExtension(loop))

InitExt ==
    /\ \E a \in ExtensionLists : extsA = NewExtLoop(a)
    /\ \E b \in ExtensionLists : extsB = NewExtLoop(b)

StepExtA ==
    /\ ~ExtLoopDone(extsA)
    /\ extsA' = HashExtension(extsA)
    /\ UNCHANGED <<extsB, hashVars, runVars, concVars, toolVars>>

StepExtB ==
    /\ ExtLoopDone(extsA)
    /\ ~ExtLoopDone(extsB)
    /\ extsB' = HashExtension(extsB)
    /\ UNCHANGED <<extsA, hashVars, runVars, concVars, toolVars>>

----------------------------------------------------------------------------
IdleHash == stream = <<>> /\ readerA = NewReader /\ readerB = NewReader
IdleExt == extsA = NewExtLoop(<<>>) /\ extsB = NewExtLoop(<<>>)
IdleRace == race = <<>>
IdleMemo == cells = <<>>
IdlePool == pool = <<>>
IdleWrite == disk = <<>>
IdleBatch == batch = <<>>
IdleConc == IdleRace /\ IdleMemo /\ IdlePool /\ IdleWrite /\ IdleBatch
IdleWhich == located = <<>>
IdleSandbox == sandbox = <<>>
IdleExec == child = <<>>
IdleLint == lint = <<>>
IdlePipe == pipe = <<>>
IdleOpen == opens = <<>>
IdleTool ==
    IdleWhich /\ IdleSandbox /\ IdleExec /\ IdleLint /\ IdlePipe /\ IdleOpen

----------------------------------------------------------------------------
(* The work tree, the tools and the store.                                  *)

Tools == {"fourmolu", "nixfmt", "hlint"}
Formatters == {"fourmolu", "nixfmt"}
Versions == {"1.0", "2.0"}
HaskellPaths == {"A.hs"}
NixPaths == {"a.nix"}
Paths == HaskellPaths \cup NixPaths

Contents == {<<0>>, <<1>>}
ConfigBytes == {<<0>>, <<1>>}

\* .hlint.yaml and the rule files, as the sequence of their bytes in the
\* order hlint_configs meets them
HlintFileSets == {<<>>, <<<<0>>>>, <<<<1>>>>}

\* the extension lists a repository may enable
EnabledLists == {<<<<0>>>>, <<<<0>>, <<1>>>>, <<<<0, 1>>>>}

\* what the style of a tool version is (the tools are external: any
\* deterministic function of their inputs will do)
StyleBit(version) == IF version = "1.0" THEN 0 ELSE 1

\* the fourmolu binary: stdout for the given stdin under --config and -X flags
fourmolu_tool(version, config, extensions, bytes) ==
    [i \in 1..Len(bytes) |->
        (StyleBit(version) + config[1] + Len(extensions)) % 2]

\* the nixfmt binary
nixfmt_tool(version, bytes) == [i \in 1..Len(bytes) |-> StyleBit(version)]

\* the hlint binary: two diagnostics per 1-byte, then hint.file := path
hlint_tool(version, configs, path, bytes) ==
    LET RECURSIVE scan(_)
        scan(i) ==
            IF i > Len(bytes) THEN <<>>
            ELSE (IF bytes[i] = 1
                  THEN <<[file |-> path, start_line |-> i,
                          severity |-> IF Len(configs) > 0 /\ configs[1][1] = 1
                                       THEN "Error" ELSE "Warning",
                          hint |-> version],
                         [file |-> path, start_line |-> i,
                          severity |-> "Suggestion",
                          hint |-> "Redundant bracket"]>>
                  ELSE <<>>) \o scan(i + 1)
    IN scan(1)

\* serde_json::to_vec with rename_all = "camelCase"
to_json(hints) ==
    [i \in 1..Len(hints) |->
        [file |-> hints[i].file, startLine |-> hints[i].start_line,
         severity |-> hints[i].severity, hint |-> hints[i].hint]]

\* (variant: the decoded list in the opposite order)
from_json_reversed(json) ==
    [i \in 1..Len(json) |->
        [file |-> json[Len(json) + 1 - i].file,
         start_line |-> json[Len(json) + 1 - i].startLine,
         severity |-> json[Len(json) + 1 - i].severity,
         hint |-> json[Len(json) + 1 - i].hint]]

\* serde_json::from_slice
from_json(json) ==
    [i \in 1..Len(json) |->
        [file |-> json[i].file, start_line |-> json[i].startLine,
         severity |-> json[i].severity, hint |-> json[i].hint]]

----------------------------------------------------------------------------
(* Fingerprints of the configuration (cache.rs).                            *)

\* u64::to_string: decimal text
Digit(d) ==
    CASE d = 0 -> "0" [] d = 1 -> "1" [] d = 2 -> "2" [] d = 3 -> "3"
      [] d = 4 -> "4" [] d = 5 -> "5" [] d = 6 -> "6" [] d = 7 -> "7"
      [] d = 8 -> "8" [] d = 9 -> "9"

RECURSIVE to_string(_)
to_string(n) ==
    IF n < 10 THEN Digit(n) ELSE to_string(n \div 10) \o Digit(n % 10)

\* u64::to_le_bytes: HashBytes bytes, least significant first
HashBytes == 8
RECURSIVE le_bytes(_, _)
le_bytes(n, count) ==
    IF count = 0 THEN <<>> ELSE <<n % 2>> \o le_bytes(n \div 2, count - 1)
to_le_bytes(n) == le_bytes(n, HashBytes)

\* file_hash reads with file.read(&mut buffer), buffer a BytesMut: as a
\* slice it is buffer.len() bytes long, and with_capacity(1024) and clear()
\* both leave the length at BufferLen
BufferLen == 0

RECURSIVE file_hash_loop(_, _, _)
file_hash_loop(content, pos, hasher) ==
    LET n == Min(BufferLen, Len(content) - pos)
        written == hasher_write(hasher, SubSeq(content, pos + 1, pos + n))
    IN IF n = 0 THEN hasher_finish(written)
       ELSE file_hash_loop(content, pos + n, written)

file_hash(content) == file_hash_loop(content, 0, hasher_default)

\* the hasher loop of hlint_configs over the config files found
RECURSIVE hlint_configs_hasher(_, _)
hlint_configs_hasher(configs, hasher) ==
    IF configs = <<>> THEN hasher
    ELSE hlint_configs_hasher(
             Tail(configs),
             hasher_write(hasher, to_le_bytes(file_hash(Head(configs)))))

----------------------------------------------------------------------------
(* The OnceCells of Cache.                                                  *)

None == [some |-> FALSE]
Some(v) == [some |-> TRUE, value |-> v]

NewCache ==
    [fourmolu_version |-> None, fourmolu_config |-> None,
     fourmolu_extensions |-> None, nixfmt_version |-> None,
     hlint_version |-> None, hlint_configs |-> None]

\* OnceCell::get_or_try_init with an initialiser that succeeds
get_or_try_init(cell, value) == IF cell.some THEN cell ELSE Some(value)

fourmolu_version(m) ==
    [m EXCEPT !.fourmolu_version = get_or_try_init(@, installed["fourmolu"])]

\* (the copy of fourmolu.yaml taken now, its hash)
fourmolu_config(m) ==
    [m EXCEPT !.fourmolu_config =
        get_or_try_init(@, [copy |-> fourmolu_yaml,
                            hash |-> file_hash(fourmolu_yaml)])]

fourmolu_extensions(m) ==
    [m EXCEPT !.fourmolu_extensions =
        get_or_try_init(@, [list |-> default_extensions,
                            hash |-> extensions_hash(NewExtLoop(default_extensions))])]

nixfmt_version(m) ==
    [m EXCEPT !.nixfmt_version = get_or_try_init(@, installed["nixfmt"])]

hlint_version(m) ==
    [m EXCEPT !.hlint_version = get_or_try_init(@, installed["hlint"])]

hlint_configs(m) ==
    [m EXCEPT !.hlint_configs =
        get_or_try_init(@, [copies |-> hlint_files,
                            hash |-> hasher_finish(
                                hlint_configs_hasher(hlint_files, hasher_default))])]

\* the cells a lookup or a record of a tool kind initialises
Memoized(kind, m) ==
    CASE kind = "fourmolu" ->
            fourmolu_extensions(fourmolu_config(fourmolu_version(m)))
      [] kind = "nixfmt" -> nixfmt_version(m)
      [] kind = "hlint" -> hlint_configs(hlint_version(m))

----------------------------------------------------------------------------
(* cache.sqlite.  Every statement runs in autocommit mode: it is its own    *)
(* transaction.                                                             *)

ToolTables == {"fourmolu", "nixfmt", "hlint"}
Tables == {"be_binary_id"} \cup ToolTables

NoTable == [exists |-> FALSE, rows |-> {}]
EmptyTable == [exists |-> TRUE, rows |-> {}]

\* the columns of a table's unique (or primary key) constraint
UniqueKey(table, row) ==
    CASE table = "be_binary_id" -> <<row.be_binary_id>>
      [] table = "fourmolu" -> <<row.version, row.config_hash, row.source_hash>>
      [] table = "nixfmt" -> <<row.version, row.source_hash>>
      [] table = "hlint" -> <<row.version, row.configs_hash, row.source_hash>>

Conflicts(d, table, row) ==
    \E old \in d[table].rows : UniqueKey(table, old) = UniqueKey(table, row)

\* a statement's outcome: the store after it, or an error and no change
SqlOk(d) == [ok |-> TRUE, db |-> d]
SqlError(d) == [ok |-> FALSE, db |-> d]

create_table_if_not_exists(d, table) ==
    SqlOk(IF d[table].exists THEN d ELSE [d EXCEPT ![table] = EmptyTable])

drop_table_if_exists(d, table) == SqlOk([d EXCEPT ![table] = NoTable])

create_table(d, table) ==
    IF d[table].exists THEN SqlError(d)
    ELSE SqlOk([d EXCEPT ![table] = EmptyTable])

insert(d, table, row) ==
    IF ~d[table].exists \/ Conflicts(d, table, row) THEN SqlError(d)
    ELSE SqlOk([d EXCEPT ![table].rows = @ \cup {row}])

\* (variant: insert or replace)
insert_or_replace(d, table, row) ==
    IF ~d[table].exists THEN SqlError(d)
    ELSE SqlOk([d EXCEPT ![table].rows =
                   {old \in @ : UniqueKey(table, old) # UniqueKey(table, row)}
                       \cup {row}])

insert_or_ignore(d, table, row) ==
    IF ~d[table].exists THEN SqlError(d)
    ELSE IF Conflicts(d, table, row) THEN SqlOk(d)
    ELSE SqlOk([d EXCEPT ![table].rows = @ \cup {row}])

\* the value bound to parameter $n: sqlx binds the n-th argument, and a
\* parameter beyond the arguments stays unbound, which SQLite reads as NULL
Bind(args, n) ==
    IF n \in DOMAIN args THEN [bound |-> TRUE, value |-> args[n]]
    ELSE [bound |-> FALSE]

\* column = $n: a comparison with NULL is never true
SqlEq(column, param) == param.bound /\ column = param.value

----------------------------------------------------------------------------
(* Cache::new: sqlite_valid and sqlite_reset.                               *)

BuildIds == {11, 12}

\* (variant: the count alone decides)
sqlite_valid_count_only(d, id) == Cardinality(d["be_binary_id"].rows) = 1

\* select count(*) ... ; select exists(... where be_binary_id = $1)
sqlite_valid(d, id) ==
    LET id_count == Cardinality(d["be_binary_id"].rows)
        has_id == \E row \in d["be_binary_id"].rows :
                      SqlEq(row.be_binary_id, Bind(<<to_string(id)>>, 1))
    IN id_count = 1 /\ has_id

\* (variant: the hlint table left out of the reset)
ResetScript_without_hlint ==
    <<[op |-> "drop", table |-> "be_binary_id"],
      [op |-> "drop", table |-> "fourmolu"],
      [op |-> "drop", table |-> "nixfmt"],
      [op |-> "create", table |-> "be_binary_id"],
      [op |-> "create", table |-> "fourmolu"],
      [op |-> "create", table |-> "nixfmt"],
      [op |-> "insert", table |-> "be_binary_id"]>>

\* the statements of sqlite_reset, in order
ResetScript ==
    <<[op |-> "drop", table |-> "be_binary_id"],
      [op |-> "drop", table |-> "fourmolu"],
      [op |-> "drop", table |-> "nixfmt"],
      [op |-> "drop", table |-> "hlint"],
      [op |-> "create", table |-> "be_binary_id"],
      [op |-> "create", table |-> "fourmolu"],
      [op |-> "create", table |-> "nixfmt"],
      [op |-> "create", table |-> "hlint"],
      [op |-> "insert", table |-> "be_binary_id"]>>

\* one statement of sqlite_reset
sqlite_reset_statement(d, s, id) ==
    CASE s.op = "drop" -> drop_table_if_exists(d, s.table)
      [] s.op = "create" -> create_table(d, s.table)
      [] s.op = "insert" -> insert(d, s.table, [be_binary_id |-> to_string(id)])

----------------------------------------------------------------------------
(* Lookup and record, per tool kind.  `m` holds the memoized values.        *)

fourmolu_key(m, source_hash) ==
    <<m.fourmolu_version.value,
      to_string(m.fourmolu_config.value.hash),
      to_string(m.fourmolu_extensions.value.hash),
      to_string(source_hash)>>

\* (variant: the version column left out of the where clause)
is_haskell_formatted_any_version(d, m, source_hash) ==
    LET args == fourmolu_key(m, source_hash)
    IN \E row \in d["fourmolu"].rows :
           /\ SqlEq(row.config_hash, Bind(args, 2))
           /\ SqlEq(row.extensions_hash, Bind(args, 3))
           /\ SqlEq(row.source_hash, Bind(args, 4))

is_haskell_formatted(d, m, source_hash) ==
    LET args == fourmolu_key(m, source_hash)
    IN \E row \in d["fourmolu"].rows :
           /\ SqlEq(row.version, Bind(args, 1))
           /\ SqlEq(row.config_hash, Bind(args, 2))
           /\ SqlEq(row.extensions_hash, Bind(args, 3))
           /\ SqlEq(row.source_hash, Bind(args, 4))

mark_haskell_formatted(d, m, source_hash) ==
    LET args == fourmolu_key(m, source_hash)
    IN insert_or_ignore(d, "fourmolu",
           [version |-> args[1], config_hash |-> args[2],
            extensions_hash |-> args[3], source_hash |-> args[4]])

nixfmt_key(m, source_hash) ==
    <<m.nixfmt_version.value, to_string(source_hash)>>

\* where version = $1 and source_hash = $3, with two arguments bound
is_nix_formatted(d, m, source_hash) ==
    LET args == nixfmt_key(m, source_hash)
    IN \E row \in d["nixfmt"].rows :
           /\ SqlEq(row.version, Bind(args, 1))
           /\ SqlEq(row.source_hash, Bind(args, 3))

mark_nix_formatted(d, m, source_hash) ==
    LET args == nixfmt_key(m, source_hash)
    IN insert_or_ignore(d, "nixfmt",
           [version |-> args[1], source_hash |-> args[2]])

hlint_key(m, source_hash) ==
    <<m.hlint_version.value,
      to_string(m.hlint_configs.value.hash),
      to_string(source_hash)>>

\* fetch_optional: the hints of a matching row, decoded
is_haskell_linted(d, m, source_hash) ==
    LET args == hlint_key(m, source_hash)
        found == {row \in d["hlint"].rows :
                      /\ SqlEq(row.version, Bind(args, 1))
                      /\ SqlEq(row.configs_hash, Bind(args, 2))
                      /\ SqlEq(row.source_hash, Bind(args, 3))}
    IN IF found = {} THEN None
       ELSE Some(from_json((CHOOSE row \in found : TRUE).hints))

mark_haskell_linted(d, m, source_hash, hints) ==
    LET args == hlint_key(m, source_hash)
    IN insert_or_ignore(d, "hlint",
           [version |-> args[1], configs_hash |-> args[2],
            source_hash |-> args[3], hints |-> to_json(hints)])

\* the lookup of a tool kind: Found(payload) or NotFound
Lookup(kind, d, m, source_hash) ==
    CASE kind = "fourmolu" ->
            IF is_haskell_formatted(d, m, source_hash) THEN Some(<<>>) ELSE None
      [] kind = "nixfmt" ->
            IF is_nix_formatted(d, m, source_hash) THEN Some(<<>>) ELSE None
      [] kind = "hlint" -> is_haskell_linted(d, m, source_hash)

\* the record of a tool kind
Record(kind, d, m, source_hash, hints) ==
    CASE kind = "fourmolu" -> mark_haskell_formatted(d, m, source_hash)
      [] kind = "nixfmt" -> mark_nix_formatted(d, m, source_hash)
      [] kind = "hlint" -> mark_haskell_linted(d, m, source_hash, hints)

\* the installed tool of a kind, run on `bytes` with the memoized
\* configuration copies and extension list
RunTool(kind, m, path, bytes) ==
    CASE kind = "fourmolu" ->
            [output |-> fourmolu_tool(installed["fourmolu"],
                                      m.fourmolu_config.value.copy,
                                      m.fourmolu_extensions.value.list, bytes),
             hints |-> <<>>]
      [] kind = "nixfmt" ->
            [output |-> nixfmt_tool(installed["nixfmt"], bytes),
             hints |-> <<>>]
      [] kind = "hlint" ->
            [output |-> <<>>,
             hints |-> hlint_tool(installed["hlint"],
                                  m.hlint_configs.value.copies, path, bytes)]

----------------------------------------------------------------------------
(* The process: main() opens the store, then runs one unit.                 *)

MaxRuns == 2

IdleTask ==
    [pc |-> "idle", kind |-> "none", mode |-> "file", path |-> "none",
     input_bytes |-> <<>>, input_hash |-> 0, output |-> <<>>, hints |-> <<>>,
     invoked |-> 0, found |-> FALSE, had_row |-> FALSE, result |-> "none",
     stdout |-> <<>>, printed |-> <<>>]

\* the units a command starts: (tool kind, mode, path)
Units ==
    {<<"fourmolu", "file", p>> : p \in HaskellPaths}
        \cup {<<"nixfmt", "file", p>> : p \in NixPaths}
        \cup {<<"hlint", "file", p>> : p \in HaskellPaths}
        \cup {<<"fourmolu", "stdin", "<stdin>">>, <<"nixfmt", "stdin", "<stdin>">>}

\* read_stdin: the bytes, and a hash for each way the pipe may split them
RECURSIVE StdinHashes(_, _)
StdinHashes(st, content) ==
    IF st.eof THEN {hash(st)}
    ELSE UNION {StdinHashes(poll_read_to_end(st, content, k), content) :
                    k \in Chunks(st, content)}

read_stdin(content) == {<<content, h>> : h \in StdinHashes(NewReader, content)}

\* io.rs write_file: the path now holds the bytes
write_file(fs, path, bytes) == [fs EXCEPT ![path] = bytes]

\* a stdout that keeps nothing of what is written to it
write_stdout_nothing(bytes) == <<>>

\* io.rs write_stdout: write_all returned Ok, stdout holds the bytes
write_stdout(bytes) == bytes

\* history: is there a row for exactly this version, configuration and source?
KeyRecorded(kind, d, m, source_hash) ==
    \E row \in d[kind].rows :
        /\ row.source_hash = to_string(source_hash)
        /\ CASE kind = "fourmolu" ->
                   /\ row.version = m.fourmolu_version.value
                   /\ row.config_hash = to_string(m.fourmolu_config.value.hash)
                   /\ row.extensions_hash = to_string(m.fourmolu_extensions.value.hash)
             [] kind = "nixfmt" -> row.version = m.nixfmt_version.value
             [] kind = "hlint" ->
                   /\ row.version = m.hlint_version.value
                   /\ row.configs_hash = to_string(m.hlint_configs.value.hash)

\* history: what a record call was made for
RecordedFor(kind, m, bytes, out) ==
    [kind |-> kind,
     version |-> installed[kind],
     config |-> CASE kind = "fourmolu" -> <<m.fourmolu_config.value.copy>>
                  [] kind = "nixfmt" -> <<>>
                  [] kind = "hlint" -> m.hlint_configs.value.copies,
     extensions |-> IF kind = "fourmolu" THEN m.fourmolu_extensions.value.list
                    ELSE <<>>,
     source |-> bytes,
     output |-> out]

Init ==
    /\ IdleHash /\ IdleExt /\ IdleConc /\ IdleTool
    /\ files \in [Paths -> Contents]
    /\ fourmolu_yaml = <<0>>
    /\ default_extensions = <<<<0>>>>
    /\ hlint_files = <<<<0>>>>
    /\ installed = [t \in Tools |-> "1.0"]
    /\ db = [t \in Tables |-> NoTable]
    /\ build = 0
    /\ main = "down"
    /\ stmt = 1
    /\ memo = NewCache
    /\ task = IdleTask
    /\ runs = 0
    /\ edits = 0
    /\ db0 = db
    /\ recorded = {}

Frame == UNCHANGED <<hashVars, extVars, concVars, toolVars>>

\* a build of the program is started: Cache::new connects (create_if_missing)
StartProcess ==
    /\ main = "down"
    /\ runs < MaxRuns
    /\ \E id \in BuildIds : build' = id
    /\ main' = "valid_create"
    /\ runs' = runs + 1
    /\ db0' = db
    /\ UNCHANGED <<worldVars, db, stmt, memo, task, edits, recorded>>
    /\ Frame

\* sqlite_valid: create table if not exists be_binary_id
ValidCreate ==
    /\ main = "valid_create"
    /\ db' = create_table_if_not_exists(db, "be_binary_id").db
    /\ main' = "valid_query"
    /\ UNCHANGED <<worldVars, build, stmt, memo, task, runs, edits, db0, recorded>>
    /\ Frame

\* sqlite_valid: the two selects, and the branch of Cache::new on the result
ValidQuery ==
    /\ main = "valid_query"
    /\ main' = IF sqlite_valid(db, build) THEN "opened" ELSE "reset"
    /\ stmt' = 1
    /\ UNCHANGED <<worldVars, db, build, memo, task, runs, edits, db0, recorded>>
    /\ Frame

\* sqlite_reset: its next statement
ResetStatement ==
    /\ main = "reset"
    /\ LET r == sqlite_reset_statement(db, ResetScript[stmt], build)
       IN /\ db' = r.db
          /\ main' = IF ~r.ok THEN "failed"
                     ELSE IF stmt = Len(ResetScript) THEN "opened" ELSE "reset"
          /\ stmt' = IF r.ok THEN stmt + 1 ELSE stmt
    /\ UNCHANGED <<worldVars, build, memo, task, runs, edits, db0, recorded>>
    /\ Frame

\* main dispatches the command: a unit is spawned
Spawn ==
    /\ main = "opened"
    /\ main' = "running"
    /\ \E u \in Units :
           task' = [IdleTask EXCEPT !.pc = "spawned", !.kind = u[1],
                                    !.mode = u[2], !.path = u[3]]
    /\ UNCHANGED <<worldVars, db, build, stmt, memo, runs, edits, db0, recorded>>
    /\ Frame

\* read_file(path) or read_stdin()
ReadInput ==
    /\ main = "running"
    /\ task.pc = "spawned"
    /\ \E in \in (IF task.mode = "file" THEN {read_file(files[task.path])}
                  ELSE UNION {read_stdin(c) : c \in Contents}) :
           task' = [task EXCEPT !.pc = "read", !.input_bytes = in[1],
                                !.input_hash = in[2]]
    /\ UNCHANGED <<worldVars, db, build, main, stmt, memo, runs, edits, db0, recorded>>
    /\ Frame

\* is_haskell_formatted / is_nix_formatted / is_haskell_linted, and the
\* branch taken on its result
LookupStep ==
    /\ main = "running"
    /\ task.pc = "read"
    /\ LET m == Memoized(task.kind, memo)
           found == Lookup(task.kind, db, m, task.input_hash)
           had == KeyRecorded(task.kind, db, m, task.input_hash)
       IN /\ memo' = m
          /\ task' =
               IF ~db[task.kind].exists
               THEN [task EXCEPT !.pc = "failed", !.result = "error"]
               ELSE IF ~found.some
               THEN [task EXCEPT !.pc = "miss", !.had_row = had]
               ELSE IF task.kind = "hlint"
               THEN [task EXCEPT !.pc = "done", !.had_row = had,
                                 !.found = TRUE,
                                 !.printed = found.value,
                                 !.result = "unchanged"]
               ELSE IF task.mode = "stdin"
               THEN [task EXCEPT !.pc = "emit", !.had_row = had,
                                 !.found = TRUE,
                                 !.output = task.input_bytes]
               ELSE [task EXCEPT !.pc = "done", !.had_row = had,
                                 !.found = TRUE,
                                 !.result = "unchanged"]
    /\ UNCHANGED <<worldVars, db, build, main, stmt, runs, edits, db0, recorded>>
    /\ Frame

\* fourmolu() / nixfmt() / hlint(): the child exits with status zero
Invoke ==
    /\ main = "running"
    /\ task.pc = "miss"
    /\ LET m == Memoized(task.kind, memo)
           out == RunTool(task.kind, m, task.path, task.input_bytes)
       IN /\ memo' = m
          /\ task' = [task EXCEPT
                         !.pc = IF task.mode = "stdin" THEN "emit" ELSE "ran",
                         !.output = out.output, !.hints = out.hints,
                         !.invoked = @ + 1]
    /\ UNCHANGED <<worldVars, db, build, main, stmt, runs, edits, db0, recorded>>
    /\ Frame

\* (variant: the key is recorded although the child failed)
InvokeFails_recording ==
    /\ main = "running"
    /\ task.pc = "miss"
    /\ LET m == Memoized(task.kind, memo)
       IN /\ memo' = m
          /\ db' = Record(task.kind, db, m, task.input_hash, <<>>).db
    /\ task' = [task EXCEPT !.pc = "failed", !.result = "error",
                            !.invoked = @ + 1]
    /\ UNCHANGED <<worldVars, build, main, stmt, runs, edits, db0, recorded>>
    /\ Frame

\* the child fails: the unit ends with the error
InvokeFails ==
    /\ main = "running"
    /\ task.pc = "miss"
    /\ memo' = Memoized(task.kind, memo)
    /\ task' = [task EXCEPT !.pc = "failed", !.result = "error",
                            !.invoked = @ + 1]
    /\ UNCHANGED <<worldVars, db, build, main, stmt, runs, edits, db0, recorded>>
    /\ Frame

\* mark_haskell_formatted / mark_nix_formatted / (print, then)
\* mark_haskell_linted, with the input's hash
Mark ==
    /\ main = "running"
    /\ task.pc = "ran"
    /\ LET m == Memoized(task.kind, memo)
           r == Record(task.kind, db, m, task.input_hash, task.hints)
       IN /\ memo' = m
          /\ db' = r.db
          /\ task' = IF r.ok
                     THEN [task EXCEPT !.pc = "marked", !.printed = task.hints]
                     ELSE [task EXCEPT !.pc = "failed", !.result = "error",
                                       !.printed = task.hints]
          /\ recorded' = IF r.ok
                         THEN recorded \cup
                                  {RecordedFor(task.kind, m, task.input_bytes,
                                               task.output)}
                         ELSE recorded
    /\ UNCHANGED <<worldVars, build, main, stmt, runs, edits, db0>>
    /\ Frame

\* the end of format_haskell / format_nix / lint_haskell after the record
Finish ==
    /\ main = "running"
    /\ task.pc = "marked"
    /\ IF task.kind \in Formatters /\ task.input_bytes # task.output
       THEN /\ files' = write_file(files, task.path, task.output)
            /\ task' = [task EXCEPT !.pc = "done", !.result = "changed"]
       ELSE /\ files' = files
            /\ task' = [task EXCEPT !.pc = "done",
                           !.result = IF task.kind = "hlint" THEN "linted"
                                      ELSE "unchanged"]
    /\ UNCHANGED <<fourmolu_yaml, default_extensions, hlint_files, installed,
                   db, build, main, stmt, memo, runs, edits, db0, recorded>>
    /\ Frame

\* stream mode: write_stdout(output_bytes)
Emit ==
    /\ main = "running"
    /\ task.pc = "emit"
    /\ task' = [task EXCEPT !.pc = "done", !.result = "emitted",
                            !.stdout = write_stdout(task.output)]
    /\ UNCHANGED <<worldVars, db, build, main, stmt, memo, runs, edits, db0, recorded>>
    /\ Frame

Stopped ==
    /\ main' = "down"
    /\ build' = 0
    /\ stmt' = 1
    /\ memo' = NewCache
    /\ task' = IdleTask
    /\ db0' = db
    /\ UNCHANGED <<worldVars, db, runs, edits, recorded>>
    /\ Frame

\* main returns: the unit ended, or Cache::new failed
Exit ==
    /\ \/ main = "failed"
       \/ main = "running" /\ task.pc \in {"done", "failed"}
    /\ Stopped

\* the process is killed at any other point
Kill ==
    /\ main \in {"valid_create", "valid_query", "reset", "opened", "running"}
    /\ task.pc \notin {"done", "failed"}
    /\ Stopped

\* between two runs the work tree or a tool changes, once
CanEdit == main = "down" /\ runs < MaxRuns /\ edits < runs

EditFile ==
    /\ CanEdit
    /\ \E p \in Paths, c \in Contents :
           c # files[p] /\ files' = [files EXCEPT ![p] = c]
    /\ edits' = edits + 1
    /\ UNCHANGED <<fourmolu_yaml, default_extensions, hlint_files, installed,
                   db, procVars, runs, db0, recorded>>
    /\ Frame

EditFourmoluYaml ==
    /\ CanEdit
    /\ \E c \in ConfigBytes : c # fourmolu_yaml /\ fourmolu_yaml' = c
    /\ edits' = edits + 1
    /\ UNCHANGED <<files, default_extensions, hlint_files, installed,
                   db, procVars, runs, db0, recorded>>
    /\ Frame

EditExtensions ==
    /\ CanEdit
    /\ \E l \in EnabledLists : l # default_extensions /\ default_extensions' = l
    /\ edits' = edits + 1
    /\ UNCHANGED <<files, fourmolu_yaml, hlint_files, installed,
                   db, procVars, runs, db0, recorded>>
    /\ Frame

EditHlintFiles ==
    /\ CanEdit
    /\ \E h \in HlintFileSets : h # hlint_files /\ hlint_files' = h
    /\ edits' = edits + 1
    /\ UNCHANGED <<files, fourmolu_yaml, default_extensions, installed,
                   db, procVars, runs, db0, recorded>>
    /\ Frame

Upgrade ==
    /\ CanEdit
    /\ \E t \in Tools, v \in Versions :
           v # installed[t] /\ installed' = [installed EXCEPT ![t] = v]
    /\ edits' = edits + 1
    /\ UNCHANGED <<files, fourmolu_yaml, default_extensions, hlint_files,
                   db, procVars, runs, db0, recorded>>
    /\ Frame

Next ==
    \/ StartProcess \/ ValidCreate \/ ValidQuery \/ ResetStatement
    \/ Spawn \/ ReadInput \/ LookupStep \/ Invoke \/ InvokeFails
    \/ Mark \/ Finish \/ Emit \/ Exit \/ Kill
    \/ EditFile \/ EditFourmoluYaml \/ EditExtensions \/ EditHlintFiles
    \/ Upgrade

Spec == Init /\ [][Next]_vars

IdleRun ==
    /\ files = [p \in Paths |-> <<0>>]
    /\ fourmolu_yaml = <<0>>
    /\ default_extensions = <<<<0>>>>
    /\ hlint_files = <<<<0>>>>
    /\ installed = [t \in Tools |-> "1.0"]
    /\ db = [t \in Tables |-> NoTable]
    /\ build = 0
    /\ main = "down"
    /\ stmt = 1
    /\ memo = NewCache
    /\ task = IdleTask
    /\ runs = 0
    /\ edits = 0
    /\ db0 = db
    /\ recorded = {}

NextHash == ReadA \/ ReadB
StartHash == InitHash /\ IdleExt /\ IdleRun /\ IdleConc /\ IdleTool
SpecHash == StartHash /\ [][NextHash]_vars

NextExt == StepExtA \/ StepExtB
StartExt == InitExt /\ IdleHash /\ IdleRun /\ IdleConc /\ IdleTool
SpecExt == StartExt /\ [][NextExt]_vars

----------------------------------------------------------------------------
(* SpecRace: two tasks that both missed on their source and ran the tool    *)
(* now call mark_haskell_formatted / mark_nix_formatted /                   *)
(* mark_haskell_linted on one store.  SQLite runs each insert statement as  *)
(* its own transaction, one writer at a time.                               *)

Writers == {1, 2}
RacePaths == {"A.hs", "B.hs"}

\* the tool tables after sqlite_reset
FreshStore == [t \in Tables |-> EmptyTable]

\* a task after its tool call returned: the hash of its input, the hints
NewWriter(kind, path, bytes) ==
    LET m == Memoized(kind, NewCache)
    IN [pc |-> "ran", path |-> path,
        input_hash |-> read_file(bytes)[2],
        hints |-> RunTool(kind, m, path, bytes).hints,
        ok |-> FALSE]

\* the rows of a tool table under the key of the memoized values and a source
RowsWithKey(kind, d, m, source_hash) ==
    {row \in d[kind].rows :
        /\ row.source_hash = to_string(source_hash)
        /\ CASE kind = "fourmolu" ->
                   /\ row.version = m.fourmolu_version.value
                   /\ row.config_hash = to_string(m.fourmolu_config.value.hash)
                   /\ row.extensions_hash = to_string(m.fourmolu_extensions.value.hash)
             [] kind = "nixfmt" -> row.version = m.nixfmt_version.value
             [] kind = "hlint" ->
                   /\ row.version = m.hlint_version.value
                   /\ row.configs_hash = to_string(m.hlint_configs.value.hash)}

InitRace ==
    \E k \in Tools, p \in [Writers -> RacePaths], c \in [Writers -> Contents] :
        race = [kind |-> k,
                store |-> FreshStore,
                w |-> [i \in Writers |-> NewWriter(k, p[i], c[i])],
                order |-> <<>>]

\* a task calls the record function: the memoized values are read
RaceCall(i) ==
    /\ race.w[i].pc = "ran"
    /\ race' = [race EXCEPT !.w[i].pc = "called"]
    /\ UNCHANGED <<hashVars, extVars, runVars, toolVars, cells, pool, disk, batch>>

\* its insert-or-ignore statement runs
RaceInsert(i) ==
    /\ race.w[i].pc = "called"
    /\ LET r == Record(race.kind, race.store, Memoized(race.kind, NewCache),
                       race.w[i].input_hash, race.w[i].hints)
       IN race' = [race EXCEPT !.store = r.db,
                               !.w[i].pc = "done",
                               !.w[i].ok = r.ok,
                               !.order = Append(@, i)]
    /\ UNCHANGED <<hashVars, extVars, runVars, toolVars, cells, pool, disk, batch>>

NextRace == (\E i \in Writers : RaceCall(i)) \/ (\E i \in Writers : RaceInsert(i))
StartRace == IdleHash /\ IdleExt /\ IdleRun /\ IdleTool /\ IdleMemo /\ IdlePool /\ IdleWrite /\ IdleBatch /\ InitRace
SpecRace == StartRace /\ [][NextRace]_vars

----------------------------------------------------------------------------
(* SpecMemo: the lazily computed values of Cache and the tasks asking for   *)
(* them.  A tokio OnceCell (get_or_try_init) guards its initializer with a  *)
(* one-permit semaphore that is closed once the value is set; the DashMap   *)
(* entry of Cache::which runs its closure under the entry's lock.           *)

Callers == {1, 2}
MaxCalls == 2

\* the cells modelled: a OnceCell and a DashMap entry
MemoCells == {"fourmolu_version", "which_fourmolu"}
IsOnceCell(c) == c = "fourmolu_version"

\* what a computation may return when it succeeds (the tool, or PATH, may
\* change while the process runs)
MemoValues(c) ==
    IF IsOnceCell(c) THEN Versions ELSE {"/usr/bin/fourmolu", ".bin/fourmolu"}

NewCell == [value |-> None, holder |-> 0, executions |-> 0]
NewCaller == [pc |-> "idle", cell |-> "none", ok |-> FALSE, value |-> "", calls |-> 0]

InitMemo ==
    cells = [cell |-> [c \in MemoCells |-> NewCell],
             caller |-> [i \in Callers |-> NewCaller]]

\* (variant: the permit is there for whoever asks)
permit_always(cell) == TRUE

\* the semaphore of the OnceCell (the lock of the DashMap entry) is free
permit_available(cell) == cell.holder = 0

\* a task calls the accessor; a OnceCell that is initialized returns at once
MemoCall(i) ==
    /\ cells.caller[i].pc \in {"idle", "returned"}
    /\ cells.caller[i].calls < MaxCalls
    /\ \E c \in MemoCells :
           cells' =
               IF IsOnceCell(c) /\ cells.cell[c].value.some
               THEN [cells EXCEPT !.caller[i] =
                        [pc |-> "returned", cell |-> c, ok |-> TRUE,
                         value |-> cells.cell[c].value.value,
                         calls |-> @.calls + 1]]
               ELSE [cells EXCEPT !.caller[i] =
                        [pc |-> "waiting", cell |-> c, ok |-> FALSE,
                         value |-> "", calls |-> @.calls + 1]]
    /\ UNCHANGED <<hashVars, extVars, runVars, toolVars, race, pool, disk, batch>>

\* semaphore.acquire() returns (the entry lock is taken): the value is there
\* by now and is returned, or the initializer starts
MemoAcquire(i) ==
    /\ cells.caller[i].pc = "waiting"
    /\ LET c == cells.caller[i].cell
       IN IF cells.cell[c].value.some
          THEN cells' = [cells EXCEPT !.caller[i].pc = "returned",
                                      !.caller[i].ok = TRUE,
                                      !.caller[i].value = cells.cell[c].value.value]
          ELSE /\ permit_available(cells.cell[c])
               /\ cells' = [cells EXCEPT !.caller[i].pc = "computing",
                                         !.cell[c].holder = i,
                                         !.cell[c].executions = @ + 1]
    /\ UNCHANGED <<hashVars, extVars, runVars, toolVars, race, pool, disk, batch>>

\* the initializer returns Ok(value): the value is set, the semaphore closed
MemoSucceed(i) ==
    /\ cells.caller[i].pc = "computing"
    /\ LET c == cells.caller[i].cell
       IN \E v \in MemoValues(c) :
              cells' = [cells EXCEPT !.caller[i].pc = "returned",
                                     !.caller[i].ok = TRUE,
                                     !.caller[i].value = v,
                                     !.cell[c].value = Some(v),
                                     !.cell[c].holder = 0]
    /\ UNCHANGED <<hashVars, extVars, runVars, toolVars, race, pool, disk, batch>>

\* the initializer returns Err: the permit is dropped, the cell stays empty
MemoFail(i) ==
    /\ cells.caller[i].pc = "computing"
    /\ LET c == cells.caller[i].cell
       IN cells' = [cells EXCEPT !.caller[i].pc = "returned",
                                 !.caller[i].ok = FALSE,
                                 !.cell[c].holder = 0]
    /\ UNCHANGED <<hashVars, extVars, runVars, toolVars, race, pool, disk, batch>>

NextMemo ==
    \/ \E i \in Callers : MemoCall(i)
    \/ \E i \in Callers : MemoAcquire(i)
    \/ \E i \in Callers : MemoSucceed(i)
    \/ \E i \in Callers : MemoFail(i)
StartMemo == IdleHash /\ IdleExt /\ IdleRun /\ IdleTool /\ IdleRace /\ IdlePool /\ IdleWrite /\ IdleBatch /\ InitMemo
SpecMemo == StartMemo /\ [][NextMemo]_vars

----------------------------------------------------------------------------
(* SpecPool: the tasks of one run (be format: fourmolu and nixfmt units; be *)
(* lint: hlint units) with the two permit pools of main(), the files the    *)
(* program holds open and the children it has running.  A permit is a local *)
(* of the function that acquired it: it is dropped when the function        *)
(* returns, by `?` as well.                                                 *)

\* main(): Semaphore::new(100) file permits and one process permit per core
\* (available_parallelism).  Every size of the file pool up to FilePermits is
\* checked: a file pool smaller than the number of tasks, and one larger than
\* the process pool
FilePermits == 2
ProcessPermits == 1
MaxTasks == 2
PoolTasks == 1..MaxTasks

NewPoolTask(kind) ==
    [pc |-> "read_wait", kind |-> kind, next |-> "version",
     file |-> FALSE, process |-> FALSE, left |-> "none"]

InitPool ==
    \E kinds \in [PoolTasks -> Tools],
       file_count \in 1..FilePermits :
        /\ \/ \A i \in PoolTasks : kinds[i] \in Formatters
           \/ \A i \in PoolTasks : kinds[i] = "hlint"
        /\ pool = [files |-> file_count,
                   processes |-> ProcessPermits,
                   file_permits |-> file_count,
                   process_permits |-> ProcessPermits,
                   open |-> 0,
                   children |-> 0,
                   version |-> [k \in Tools |-> "empty"],
                   config |-> [k \in Tools |-> "empty"],
                   extensions |-> "empty",
                   halted |-> FALSE,
                   t |-> [i \in PoolTasks |-> NewPoolTask(kinds[i])]]

\* (variant: the file permit goes back first)
drop_file_permit_first(p, i) ==
    [p EXCEPT !.file_permits = @ + 1, !.t[i].file = FALSE]

\* drop(process_permit): the first of the two drops after wait_with_output,
\* and the first local dropped when the function returns by `?` (locals are
\* dropped in the reverse of their declaration order)
drop_process_permit(p, i) ==
    [p EXCEPT !.process_permits = @ + (IF p.t[i].process THEN 1 ELSE 0),
              !.t[i].process = FALSE]

\* (variant: the file permit is forgotten, std::mem::forget)
forget_file_permit(p, i) == p

\* drop(file_permit) / drop(permit) / the end of _permit's scope
drop_file_permit(p, i) ==
    [p EXCEPT !.file_permits = @ + (IF p.t[i].file THEN 1 ELSE 0),
              !.t[i].file = FALSE]

\* (variant: the permits are forgotten, not dropped)
forget_permits(p, i) == p

\* the permits task i holds go back to their pools, process permit first
drop_permits(p, i) == drop_file_permit(drop_process_permit(p, i), i)

\* (variant: Command::kill_on_drop is left unset)
kill_on_drop_unset == FALSE

\* .kill_on_drop(true) of exec, fourmolu, nixfmt and hlint
kill_on_drop == TRUE

\* the files a config computation holds open: fourmolu_config runs fs::copy
\* (source and destination) and file_hash (source) at once; hlint_configs
\* runs the copy of one file while it hashes the next
ConfigFiles(kind) == IF kind = "fourmolu" THEN 3 ELSE 2

\* read_file: cx.file_permits.acquire()
PoolReadAcquire(i) ==
    /\ pool.t[i].pc = "read_wait"
    /\ pool.file_permits > 0
    /\ pool' = [pool EXCEPT !.file_permits = @ - 1,
                            !.t[i].file = TRUE,
                            !.t[i].pc = "read_open"]
    /\ UNCHANGED <<hashVars, extVars, runVars, toolVars, race, cells, disk, batch>>

\* read_file: File::open
PoolReadOpen(i) ==
    /\ pool.t[i].pc = "read_open"
    /\ pool' = [pool EXCEPT !.open = @ + 1, !.t[i].pc = "read_body"]
    /\ UNCHANGED <<hashVars, extVars, runVars, toolVars, race, cells, disk, batch>>

\* read_file: read_to_end returned; the file and the permit are dropped
PoolReadDone(i) ==
    /\ pool.t[i].pc = "read_body"
    /\ LET p == drop_permits(pool, i)
       IN pool' = [p EXCEPT !.open = @ - 1,
                            !.t[i].pc = pool.t[i].next,
                            !.extensions = IF pool.t[i].next = "lookup"
                                           THEN "set" ELSE @]
    /\ UNCHANGED <<hashVars, extVars, runVars, toolVars, race, cells, disk, batch>>

\* read_file: File::open or read_to_end returns Err
PoolReadFails(i) ==
    /\ pool.t[i].pc \in {"read_open", "read_body"}
    /\ LET p == drop_permits(pool, i)
       IN pool' = [p EXCEPT !.open = IF pool.t[i].pc = "read_body"
                                      THEN @ - 1 ELSE @,
                            !.t[i].pc = "failed",
                            !.t[i].left = pool.t[i].pc,
                            !.extensions = IF pool.t[i].next = "lookup"
                                           THEN "empty" ELSE @]
    /\ UNCHANGED <<hashVars, extVars, runVars, toolVars, race, cells, disk, batch>>

\* fourmolu_version / nixfmt_version / hlint_version: memoized, or
\* sandbox_exec(tool, ["--version"]) spawns a child
PoolVersion(i) ==
    /\ pool.t[i].pc = "version"
    /\ LET k == pool.t[i].kind
       IN \/ /\ pool.version[k] = "set"
             /\ pool' = [pool EXCEPT !.t[i].pc = "config"]
          \/ /\ pool.version[k] = "empty"
             /\ pool' = [pool EXCEPT !.version[k] = "computing",
                                     !.children = @ + 1,
                                     !.t[i].pc = "version_exec"]
    /\ UNCHANGED <<hashVars, extVars, runVars, toolVars, race, cells, disk, batch>>

\* the --version child exits with status zero
PoolVersionDone(i) ==
    /\ pool.t[i].pc = "version_exec"
    /\ pool' = [pool EXCEPT !.version[pool.t[i].kind] = "set",
                            !.children = @ - 1,
                            !.t[i].pc = "config"]
    /\ UNCHANGED <<hashVars, extVars, runVars, toolVars, race, cells, disk, batch>>

\* the --version child fails
PoolVersionFails(i) ==
    /\ pool.t[i].pc = "version_exec"
    /\ pool' = [pool EXCEPT !.version[pool.t[i].kind] = "empty",
                            !.children = @ - 1,
                            !.t[i].pc = "failed"]
    /\ UNCHANGED <<hashVars, extVars, runVars, toolVars, race, cells, disk, batch>>

\* fourmolu_config / hlint_configs: memoized, or fs::copy and file_hash open
\* the config files; nixfmt has no config
PoolConfig(i) ==
    /\ pool.t[i].pc = "config"
    /\ LET k == pool.t[i].kind
       IN \/ /\ k = "nixfmt" \/ pool.config[k] = "set"
             /\ pool' = [pool EXCEPT !.t[i].pc =
                            IF k = "fourmolu" THEN "extensions" ELSE "lookup"]
          \/ /\ k # "nixfmt"
             /\ pool.config[k] = "empty"
             /\ pool' = [pool EXCEPT !.config[k] = "computing",
                                     !.open = @ + ConfigFiles(k),
                                     !.t[i].pc = "config_files"]
    /\ UNCHANGED <<hashVars, extVars, runVars, toolVars, race, cells, disk, batch>>

\* the copies and the hash are done (or one of them failed)
PoolConfigDone(i) ==
    /\ pool.t[i].pc = "config_files"
    /\ LET k == pool.t[i].kind
       IN \/ pool' = [pool EXCEPT !.config[k] = "set",
                                  !.open = @ - ConfigFiles(k),
                                  !.t[i].pc = IF k = "fourmolu" THEN "extensions"
                                              ELSE "lookup"]
          \/ pool' = [pool EXCEPT !.config[k] = "empty",
                                  !.open = @ - ConfigFiles(k),
                                  !.t[i].pc = "failed"]
    /\ UNCHANGED <<hashVars, extVars, runVars, toolVars, race, cells, disk, batch>>

\* fourmolu_extensions: memoized, or read_file(default-extensions.yaml)
PoolExtensions(i) ==
    /\ pool.t[i].pc = "extensions"
    /\ \/ /\ pool.extensions = "set"
          /\ pool' = [pool EXCEPT !.t[i].pc = "lookup"]
       \/ /\ pool.extensions = "empty"
          /\ pool' = [pool EXCEPT !.extensions = "computing",
                                  !.t[i].pc = "read_wait",
                                  !.t[i].next = "lookup"]
    /\ UNCHANGED <<hashVars, extVars, runVars, toolVars, race, cells, disk, batch>>

\* the select of is_haskell_formatted / is_nix_formatted / is_haskell_linted
PoolLookup(i) ==
    /\ pool.t[i].pc = "lookup"
    /\ \E hit \in BOOLEAN :
           pool' = [pool EXCEPT !.t[i].pc = IF hit THEN "done" ELSE "tool_file"]
    /\ UNCHANGED <<hashVars, extVars, runVars, toolVars, race, cells, disk, batch>>

\* fourmolu() / nixfmt() / hlint(): cx.file_permits.acquire()
PoolToolFilePermit(i) ==
    /\ pool.t[i].pc = "tool_file"
    /\ pool.file_permits > 0
    /\ pool' = [pool EXCEPT !.file_permits = @ - 1,
                            !.t[i].file = TRUE,
                            !.t[i].pc = "tool_process"]
    /\ UNCHANGED <<hashVars, extVars, runVars, toolVars, race, cells, disk, batch>>

\* cx.process_permits.acquire()
PoolToolProcessPermit(i) ==
    /\ pool.t[i].pc = "tool_process"
    /\ pool.process_permits > 0
    /\ pool' = [pool EXCEPT !.process_permits = @ - 1,
                            !.t[i].process = TRUE,
                            !.t[i].pc = "tool_spawn"]
    /\ UNCHANGED <<hashVars, extVars, runVars, toolVars, race, cells, disk, batch>>

\* command.spawn()
PoolSpawn(i) ==
    /\ pool.t[i].pc = "tool_spawn"
    /\ pool' = [pool EXCEPT !.children = @ + 1, !.t[i].pc = "tool_child"]
    /\ UNCHANGED <<hashVars, extVars, runVars, toolVars, race, cells, disk, batch>>

\* command.spawn() returns Err: process_permit is dropped
PoolSpawnFails(i) ==
    /\ pool.t[i].pc = "tool_spawn"
    /\ pool' = [drop_process_permit(pool, i) EXCEPT
                   !.t[i].pc = "tool_release",
                   !.t[i].left = "tool_spawn"]
    /\ UNCHANGED <<hashVars, extVars, runVars, toolVars, race, cells, disk, batch>>

\* the child exits, wait_with_output returns, drop(process_permit)
PoolChildExit(i) ==
    /\ pool.t[i].pc = "tool_child"
    /\ pool' = [drop_process_permit(pool, i) EXCEPT
                   !.children = @ - 1,
                   !.t[i].pc = "tool_release"]
    /\ UNCHANGED <<hashVars, extVars, runVars, toolVars, race, cells, disk, batch>>

\* stdin.write_all / flush / wait_with_output returns Err: the child is
\* dropped (killed if kill_on_drop), then process_permit
PoolChildIoFails(i) ==
    /\ pool.t[i].pc = "tool_child"
    /\ pool' = [drop_process_permit(pool, i) EXCEPT
                   !.children = IF kill_on_drop THEN @ - 1 ELSE @,
                   !.t[i].pc = "tool_release",
                   !.t[i].left = "tool_child"]
    /\ UNCHANGED <<hashVars, extVars, runVars, toolVars, race, cells, disk, batch>>

\* drop(file_permit); after a normal exit the status decides
PoolToolRelease(i) ==
    /\ pool.t[i].pc = "tool_release"
    /\ \E status_success \in BOOLEAN :
           pool' = [drop_permits(pool, i) EXCEPT
                       !.t[i].pc = IF pool.t[i].left = "none" /\ status_success
                                   THEN "ran" ELSE "failed"]
    /\ UNCHANGED <<hashVars, extVars, runVars, toolVars, race, cells, disk, batch>>

\* the record call, then (formatters) the comparison of output and input
PoolMark(i) ==
    /\ pool.t[i].pc = "ran"
    /\ \E same \in BOOLEAN :
           pool' = [pool EXCEPT !.t[i].pc =
                       IF same \/ pool.t[i].kind = "hlint" THEN "done"
                       ELSE "write_wait"]
    /\ UNCHANGED <<hashVars, extVars, runVars, toolVars, race, cells, disk, batch>>

\* write_file: cx.file_permits.acquire()
PoolWriteAcquire(i) ==
    /\ pool.t[i].pc = "write_wait"
    /\ pool.file_permits > 0
    /\ pool' = [pool EXCEPT !.file_permits = @ - 1,
                            !.t[i].file = TRUE,
                            !.t[i].pc = "write_create"]
    /\ UNCHANGED <<hashVars, extVars, runVars, toolVars, race, cells, disk, batch>>

\* write_file: File::create(temp_path)
PoolWriteCreate(i) ==
    /\ pool.t[i].pc = "write_create"
    /\ pool' = [pool EXCEPT !.open = @ + 1, !.t[i].pc = "write_body"]
    /\ UNCHANGED <<hashVars, extVars, runVars, toolVars, race, cells, disk, batch>>

\* write_file: write_all, flush, drop(temp_file), drop(permit)
PoolWriteDone(i) ==
    /\ pool.t[i].pc = "write_body"
    /\ pool' = [drop_permits(pool, i) EXCEPT !.open = @ - 1,
                                             !.t[i].pc = "rename"]
    /\ UNCHANGED <<hashVars, extVars, runVars, toolVars, race, cells, disk, batch>>

\* write_file: File::create, write_all or flush returns Err
PoolWriteFails(i) ==
    /\ pool.t[i].pc \in {"write_create", "write_body"}
    /\ pool' = [drop_permits(pool, i) EXCEPT
                   !.open = IF pool.t[i].pc = "write_body" THEN @ - 1 ELSE @,
                   !.t[i].pc = "failed",
                   !.t[i].left = pool.t[i].pc]
    /\ UNCHANGED <<hashVars, extVars, runVars, toolVars, race, cells, disk, batch>>

\* write_file: fs::rename
PoolRename(i) ==
    /\ pool.t[i].pc = "rename"
    /\ \E ok \in BOOLEAN :
           pool' = [pool EXCEPT !.t[i].pc = IF ok THEN "done" ELSE "failed"]
    /\ UNCHANGED <<hashVars, extVars, runVars, toolVars, race, cells, disk, batch>>

\* the tasks the runtime still holds
Unfinished(p) == {k \in PoolTasks : p.t[k].pc \notin {"done", "failed"}}

\* the batch loop (`handle.await??`) meets the first failed unit of its
\* batch: the batch function and main return Err, the runtime shuts down and
\* drops every task it still holds, with the task's locals: its child (killed
\* if kill_on_drop), its open files, its permits, its OnceCell permit
PoolHalt(i) ==
    /\ ~pool.halted
    /\ pool.t[i].pc = "failed"
    /\ \A j \in 1..(i - 1) :
           pool.t[j].kind = pool.t[i].kind => pool.t[j].pc = "done"
    /\ LET gone == Unfinished(pool)
           at(pcs) == Cardinality({k \in gone : pool.t[k].pc \in pcs})
           configs == {k \in gone : pool.t[k].pc = "config_files"}
       IN pool' =
            [halted |-> TRUE,
             files |-> pool.files,
             processes |-> pool.processes,
             file_permits |-> pool.file_permits
                                + Cardinality({k \in gone : pool.t[k].file}),
             process_permits |-> pool.process_permits
                                + Cardinality({k \in gone : pool.t[k].process}),
             open |-> pool.open - at({"read_body", "write_body"})
                        - (IF \E k \in configs : pool.t[k].kind = "fourmolu"
                           THEN ConfigFiles("fourmolu") ELSE 0)
                        - (IF \E k \in configs : pool.t[k].kind = "hlint"
                           THEN ConfigFiles("hlint") ELSE 0),
             children |-> IF kill_on_drop
                          THEN pool.children - at({"tool_child", "version_exec"})
                          ELSE pool.children,
             version |-> [k \in Tools |-> IF pool.version[k] = "computing"
                                          THEN "empty" ELSE pool.version[k]],
             config |-> [k \in Tools |-> IF pool.config[k] = "computing"
                                         THEN "empty" ELSE pool.config[k]],
             extensions |-> IF pool.extensions = "computing" THEN "empty"
                            ELSE pool.extensions,
             t |-> [k \in PoolTasks |->
                      IF k \in gone
                      THEN [pool.t[k] EXCEPT !.pc = "dropped",
                                             !.left = pool.t[k].pc,
                                             !.file = FALSE,
                                             !.process = FALSE]
                      ELSE pool.t[k]]]
    /\ UNCHANGED <<hashVars, extVars, runVars, toolVars, race, cells, disk, batch>>

NextPool ==
    \/ \E i \in PoolTasks : PoolReadAcquire(i)
    \/ \E i \in PoolTasks : PoolReadOpen(i)
    \/ \E i \in PoolTasks : PoolReadDone(i)
    \/ \E i \in PoolTasks : PoolReadFails(i)
    \/ \E i \in PoolTasks : PoolVersion(i)
    \/ \E i \in PoolTasks : PoolVersionDone(i)
    \/ \E i \in PoolTasks : PoolVersionFails(i)
    \/ \E i \in PoolTasks : PoolConfig(i)
    \/ \E i \in PoolTasks : PoolConfigDone(i)
    \/ \E i \in PoolTasks : PoolExtensions(i)
    \/ \E i \in PoolTasks : PoolLookup(i)
    \/ \E i \in PoolTasks : PoolToolFilePermit(i)
    \/ \E i \in PoolTasks : PoolToolProcessPermit(i)
    \/ \E i \in PoolTasks : PoolSpawn(i)
    \/ \E i \in PoolTasks : PoolSpawnFails(i)
    \/ \E i \in PoolTasks : PoolChildExit(i)
    \/ \E i \in PoolTasks : PoolChildIoFails(i)
    \/ \E i \in PoolTasks : PoolToolRelease(i)
    \/ \E i \in PoolTasks : PoolHalt(i)
    \/ \E i \in PoolTasks : PoolMark(i)
    \/ \E i \in PoolTasks : PoolWriteAcquire(i)
    \/ \E i \in PoolTasks : PoolWriteCreate(i)
    \/ \E i \in PoolTasks : PoolWriteDone(i)
    \/ \E i \in PoolTasks : PoolWriteFails(i)
    \/ \E i \in PoolTasks : PoolRename(i)
StartPool == IdleHash /\ IdleExt /\ IdleRun /\ IdleTool /\ IdleRace /\ IdleMemo /\ IdleWrite /\ IdleBatch /\ InitPool
SpecPool == StartPool /\ [][NextPool]_vars

\* the same, with the scheduling the runtime gives: a task that can be
\* polled is polled, a permit that is free goes to a waiter, and every child
\* ends (the premise of the progress claim)
SpecPoolFair == StartPool /\ [][NextPool]_vars /\ WF_vars(NextPool)

----------------------------------------------------------------------------
(* SpecWrite: write_file replacing a source file while another process      *)
(* reads it.  A directory maps a name to an inode; an open file stays on    *)
(* the inode it was opened on; rename swaps the name's inode in one step.   *)

MaxWrite == 2
WriteContents == SeqsOf(Byte, 1, MaxWrite)

\* the inode of a name, 0 when the name does not exist
NoInode == 0
Destination == "A.hs"

\* (variant: the bytes are written to the destination itself)
temp_path_in_place(path) == path

\* temp_dir.path().join(path.file_name())
temp_path(path) == "tmp/" \o path

InitWrite ==
    \E old \in WriteContents, new \in WriteContents :
        /\ old # new
        /\ disk = [dir |-> [n \in {Destination, temp_path(Destination)} |->
                               IF n = Destination THEN 1 ELSE NoInode],
                   inode |-> <<old, <<>>>>,
                   old |-> old,
                   w |-> [pc |-> "start", bytes |-> new, written |-> 0],
                   r |-> [pc |-> "idle", inode |-> NoInode, got |-> <<>>]]

\* File::create(temp_path): a new empty file, or the existing one truncated
WriteCreate ==
    /\ disk.w.pc = "start"
    /\ LET name == temp_path(Destination)
           node == IF disk.dir[name] = NoInode THEN 2 ELSE disk.dir[name]
       IN disk' = [disk EXCEPT !.dir[name] = node,
                               !.inode[node] = <<>>,
                               !.w.pc = "writing"]
    /\ UNCHANGED <<hashVars, extVars, runVars, toolVars, race, cells, pool, batch>>

\* temp_file.write_all(&bytes): the bytes reach the file one after another
WriteByte ==
    /\ disk.w.pc = "writing"
    /\ disk.w.written < Len(disk.w.bytes)
    /\ LET node == disk.dir[temp_path(Destination)]
       IN disk' = [disk EXCEPT
                      !.inode[node] = Append(@, disk.w.bytes[disk.w.written + 1]),
                      !.w.written = @ + 1]
    /\ UNCHANGED <<hashVars, extVars, runVars, toolVars, race, cells, pool, batch>>

\* temp_file.flush() returns once everything is written; drop(temp_file)
WriteFlush ==
    /\ disk.w.pc = "writing"
    /\ disk.w.written = Len(disk.w.bytes)
    /\ disk' = [disk EXCEPT !.w.pc = "flushed"]
    /\ UNCHANGED <<hashVars, extVars, runVars, toolVars, race, cells, pool, batch>>

\* write_all or flush returns Err: write_file returns before the rename
WriteFails ==
    /\ disk.w.pc = "writing"
    /\ disk' = [disk EXCEPT !.w.pc = "failed"]
    /\ UNCHANGED <<hashVars, extVars, runVars, toolVars, race, cells, pool, batch>>

\* fs::rename(temp_path, path): the name now leads to the new file
WriteRename ==
    /\ disk.w.pc = "flushed"
    /\ LET name == temp_path(Destination)
       IN disk' = [disk EXCEPT
                      !.dir = [n \in DOMAIN @ |->
                                  IF n = Destination THEN disk.dir[name]
                                  ELSE IF n = name THEN NoInode
                                  ELSE @[n]],
                      !.w.pc = "done"]
    /\ UNCHANGED <<hashVars, extVars, runVars, toolVars, race, cells, pool, batch>>

\* fs::rename returns Err (the temporary directory is on another file
\* system): nothing changes
WriteRenameFails ==
    /\ disk.w.pc = "flushed"
    /\ disk' = [disk EXCEPT !.w.pc = "failed"]
    /\ UNCHANGED <<hashVars, extVars, runVars, toolVars, race, cells, pool, batch>>

\* another process opens the destination
ReaderOpen ==
    /\ disk.r.pc = "idle"
    /\ disk' = [disk EXCEPT !.r.pc = "open", !.r.inode = disk.dir[Destination]]
    /\ UNCHANGED <<hashVars, extVars, runVars, toolVars, race, cells, pool, batch>>

\* and reads it: the next byte of the file it opened, or end of file
ReaderRead ==
    /\ disk.r.pc = "open"
    /\ LET content == disk.inode[disk.r.inode]
           pos == Len(disk.r.got)
       IN disk' = IF pos < Len(content)
                  THEN [disk EXCEPT !.r.got = Append(@, content[pos + 1])]
                  ELSE [disk EXCEPT !.r.pc = "done"]
    /\ UNCHANGED <<hashVars, extVars, runVars, toolVars, race, cells, pool, batch>>

NextWrite ==
    \/ WriteCreate \/ WriteByte \/ WriteFlush \/ WriteFails
    \/ WriteRename \/ WriteRenameFails \/ ReaderOpen \/ ReaderRead
StartWrite ==
    /\ IdleHash /\ IdleExt /\ IdleRun /\ IdleTool /\ IdleRace /\ IdleMemo /\ IdlePool
    /\ IdleBatch /\ InitWrite
SpecWrite == StartWrite /\ [][NextWrite]_vars

----------------------------------------------------------------------------
(* SpecBatch: run_format_haskell / run_format_nix / run_lint_haskell over a *)
(* list of paths: one spawned task per path, then the loop that awaits the  *)
(* handles in order and the summary line.                                   *)

MaxUnits == 3

\* what a unit returns: Ok(Some(true)), Ok(Some(false)) or Err
UnitOutcomes == {"changed", "unchanged", "error"}

\* the steps of a unit that can return Err
UnitSteps == {"read_file", "lookup", "tool", "mark", "write_file"}

\* a task not yet finished: nothing is known of its lookup and tool run
NoRun == [hit |-> FALSE, input |-> <<>>, output |-> <<>>, wrote |-> FALSE,
          failed |-> FALSE]

InitBatch ==
    \E n \in 0..MaxUnits, kind \in Tools :
        \E file \in [1..n -> Contents] :
            batch = [kind |-> kind,
                     unit |-> [i \in 1..n |-> "running"],
                     before |-> file,
                     file |-> file,
                     run |-> [i \in 1..n |-> NoRun],
                     next |-> 1,
                     formatted_count |-> 0,
                     summary |-> <<>>,
                     result |-> "running"]

\* (variant: the loop skips a failed unit)
propagates_never(outcome) == FALSE

\* handle.await??: an Err of the unit leaves the function
propagates(outcome) == outcome = "error"

\* (variant: the output is written back whatever it is)
unchanged_never(input_bytes, output_bytes) == FALSE

\* input_bytes == output_bytes
unchanged(input_bytes, output_bytes) == input_bytes = output_bytes

\* a step of the unit returned Err: the error leaves the unit by `?`
UnitErr(input) ==
    [outcome |-> "error", file |-> input,
     run |-> [NoRun EXCEPT !.input = input, !.failed = TRUE]]

\* format_haskell / format_nix on a file that holds `input`: the lookup
\* answers `hit`, the tool prints `output`, `fails` is the step that returns
\* Err (or "none")
format_unit(input, hit, output, fails) ==
    IF fails \in {"read_file", "lookup"} THEN UnitErr(input)
    ELSE IF hit
    THEN [outcome |-> "unchanged", file |-> input,
          run |-> [NoRun EXCEPT !.hit = TRUE, !.input = input]]
    ELSE IF fails \in {"tool", "mark"} THEN UnitErr(input)
    ELSE IF unchanged(input, output)
    THEN [outcome |-> "unchanged", file |-> input,
          run |-> [NoRun EXCEPT !.input = input, !.output = output]]
    ELSE IF fails = "write_file"
    THEN UnitErr(input)
    ELSE [outcome |-> "changed", file |-> output,
          run |-> [NoRun EXCEPT !.input = input, !.output = output,
                                !.wrote = TRUE]]

\* lint_haskell: Ok(Some(true)) stands for `linted now`, nothing is written
lint_unit(input, hit, fails) ==
    IF fails \in {"read_file", "lookup"} THEN UnitErr(input)
    ELSE IF hit
    THEN [outcome |-> "unchanged", file |-> input,
          run |-> [NoRun EXCEPT !.hit = TRUE, !.input = input]]
    ELSE IF fails \in {"tool", "mark"} THEN UnitErr(input)
    ELSE [outcome |-> "changed", file |-> input,
          run |-> [NoRun EXCEPT !.input = input]]

\* a task ends
UnitEnds ==
    \E i \in DOMAIN batch.unit, hit \in BOOLEAN, output \in Contents,
       fails \in UnitSteps \cup {"none"} :
        /\ batch.unit[i] = "running"
        /\ LET end == IF batch.kind = "hlint"
                      THEN lint_unit(batch.file[i], hit, fails)
                      ELSE format_unit(batch.file[i], hit, output, fails)
           IN batch' = [batch EXCEPT !.unit[i] = end.outcome,
                                     !.file[i] = end.file,
                                     !.run[i] = end.run]
        /\ UNCHANGED <<hashVars, extVars, runVars, toolVars, race, cells, pool, disk>>

\* the loop takes the result of the next handle
AwaitHandle ==
    /\ batch.result = "running"
    /\ batch.next <= Len(batch.unit)
    /\ batch.unit[batch.next] # "running"
    /\ batch' =
           IF propagates(batch.unit[batch.next])
           THEN [batch EXCEPT !.result = "err"]
           ELSE [batch EXCEPT
                    !.next = @ + 1,
                    !.formatted_count =
                        IF batch.unit[batch.next] = "changed" THEN @ + 1 ELSE @]
    /\ UNCHANGED <<hashVars, extVars, runVars, toolVars, race, cells, pool, disk>>

\* after the loop: the summary line, Ok(())
Summary ==
    /\ batch.result = "running"
    /\ batch.next > Len(batch.unit)
    /\ batch' = [batch EXCEPT
                    !.summary = <<[formatted_count |-> batch.formatted_count,
                                   total_count |-> Len(batch.unit)]>>,
                    !.result = "ok"]
    /\ UNCHANGED <<hashVars, extVars, runVars, toolVars, race, cells, pool, disk>>

NextBatch == UnitEnds \/ AwaitHandle \/ Summary
StartBatch ==
    /\ IdleHash /\ IdleExt /\ IdleRun /\ IdleTool /\ IdleRace /\ IdleMemo /\ IdlePool
    /\ IdleWrite /\ InitBatch
SpecBatch == StartBatch /\ [][NextBatch]_vars

----------------------------------------------------------------------------
(* SpecWhich: Cache::which over the directories of $PATH and the            *)
(* repository's .bin directory.  A directory entry is absent, an executable *)
(* file, or a symbolic link to an executable in the store.                  *)

Ok(v) == [ok |-> TRUE, value |-> v]
Err == [ok |-> FALSE]

MaxWhich == 2
Binaries == {"git", "fourmolu"}
PathDirs == <<"/usr/local/bin", "/usr/bin">>
RepoRoot == "/repo"
Entries == {"absent", "file", "link"}

\* Utf8Path::join
join(dir, name) == dir \o "/" \o name

\* git_root.join(".bin")
BinDir == join(RepoRoot, ".bin")

SearchedPaths ==
    {join(PathDirs[n], b) : n \in 1..Len(PathDirs), b \in Binaries}
        \cup {join(BinDir, b) : b \in Binaries}

\* which's search of a list of directories: the first that holds an
\* executable of that name
which_in_dirs(fs, binary, dirs) ==
    LET found == {n \in 1..Len(dirs) : fs[join(dirs[n], binary)] # "absent"}
    IN IF found = {} THEN Err
       ELSE Ok(join(dirs[CHOOSE n \in found : \A k \in found : n <= k], binary))

\* which_global(binary): the directories of $PATH
which_global(fs, binary) == which_in_dirs(fs, binary, PathDirs)

\* which_in_global(binary, Some(bin)), then iter.next()
which_in_global(fs, binary, dir) == which_in_dirs(fs, binary, <<dir>>)

\* Path::canonicalize: symbolic links resolved
canonicalize(fs, path) ==
    IF fs[path] = "link" THEN "/nix/store" \o path ELSE path

\* (variant: the .bin directory is asked first)
which_bin_or_path(fs, binary) ==
    LET first == which_in_global(fs, binary, BinDir)
    IN IF first.ok THEN first ELSE which_global(fs, binary)

\* which_path().or_else(|_| which_bin())
which_path_or_bin(fs, binary) ==
    LET first == which_global(fs, binary)
    IN IF first.ok THEN first ELSE which_in_global(fs, binary, BinDir)

\* the free function git_root under Cache::git_root: git is looked up on
\* $PATH alone, then `git rev-parse --show-toplevel` runs
git_root(l) ==
    IF l.git_root.some THEN Ok(l.git_root.value)
    ELSE IF which_global(l.fs, "git").ok /\ l.rev_parse THEN Ok(RepoRoot)
    ELSE Err

\* the closure of or_try_insert_with
which_insert(fs, binary) ==
    LET path == which_path_or_bin(fs, binary)
    IN IF path.ok THEN Ok(canonicalize(fs, path.value)) ELSE Err

InitWhich ==
    \E fs \in [SearchedPaths -> Entries], rev_parse \in BOOLEAN :
        located = [fs |-> fs,
                   rev_parse |-> rev_parse,
                   git_root |-> None,
                   which |-> [b \in Binaries |-> None],
                   calls |-> 0,
                   binary |-> "git",
                   result |-> Err]

\* Cache::which(binary)
Which(binary) ==
    /\ located.calls < MaxWhich
    /\ LET root == git_root(located)
           entry == located.which[binary]
           path == IF entry.some THEN Ok(entry.value)
                   ELSE which_insert(located.fs, binary)
       IN located' =
            IF ~root.ok
            THEN [located EXCEPT !.calls = @ + 1, !.binary = binary,
                                 !.result = Err]
            ELSE [located EXCEPT
                     !.git_root = Some(root.value),
                     !.which[binary] = IF path.ok THEN Some(path.value) ELSE @,
                     !.calls = @ + 1,
                     !.binary = binary,
                     !.result = path]
    /\ UNCHANGED <<hashVars, extVars, runVars, concVars, sandbox, child, lint, pipe, opens>>

NextWhich == \E binary \in Binaries : Which(binary)
StartWhich == IdleHash /\ IdleExt /\ IdleRun /\ IdleConc /\ IdleSandbox /\ IdleExec /\ IdleLint /\ IdlePipe /\ IdleOpen /\ InitWhich
SpecWhich == StartWhich /\ [][NextWhich]_vars

----------------------------------------------------------------------------
(* SpecSandbox: a tool started by sandbox-exec under its profile, and the   *)
(* operations the kernel let it do.  A profile is its rules in order; the   *)
(* last rule that matches an operation decides, `default` matches all.      *)

MaxAttempts == 2

Operations == {"file-write*", "file-read*", "process-exec*"}

StoreBinary(dir, name) == <<"nix", "store", dir, "bin", name>>

\* the paths a tool may touch: sources and keys under the home directories,
\* the tools in the store, a shell, a scratch file
SandboxPaths ==
    {<<"Users", "me", "repo", "A.hs">>,
     <<"Users", "me", ".ssh", "id">>,
     StoreBinary("a-fourmolu-1", "fourmolu"),
     StoreBinary("c-nixfmt-1", "nixfmt"),
     StoreBinary("d-hlint-3", "hlint"),
     <<"bin", "sh">>,
     <<"private", "tmp", "out">>}

\* [a-z0-9]+-<tool>-[^/]+ over the store directories above
StoreDirOf(tool) ==
    CASE tool = "fourmolu" -> {"a-fourmolu-1"}
      [] tool = "nixfmt" -> {"c-nixfmt-1"}
      [] tool = "hlint" -> {"d-hlint-3"}

\* (regex #"^/nix/store/[a-z0-9]+-<tool>-[^/]+/bin/<tool>$")
regex(tool) == [filter |-> "regex", tool |-> tool]
\* (subpath "/Users")
subpath(prefix) == [filter |-> "subpath", prefix |-> prefix]
any == [filter |-> "any"]

allow(op, filter) == [action |-> "allow", op |-> op, filter |-> filter]
deny(op, filter) == [action |-> "deny", op |-> op, filter |-> filter]

FOURMOLU_PROFILE ==
    <<deny("default", any),
      allow("process-exec*", regex("fourmolu")),
      allow("file-read*", any),
      deny("file-read*", subpath(<<"Users">>))>>

NIXFMT_PROFILE ==
    <<deny("default", any),
      allow("process-exec*", regex("nixfmt")),
      allow("file-read*", any),
      deny("file-read*", subpath(<<"Users">>))>>

HLINT_PROFILE ==
    <<allow("default", any),
      deny("file-read*", subpath(<<"Users">>))>>

\* the profile fourmolu() / nixfmt() / hlint() hands to sandbox-exec -p
ProfileOf(kind) ==
    CASE kind = "fourmolu" -> FOURMOLU_PROFILE
      [] kind = "nixfmt" -> NIXFMT_PROFILE
      [] kind = "hlint" -> HLINT_PROFILE

FilterMatches(f, path) ==
    CASE f.filter = "any" -> TRUE
      [] f.filter = "subpath" ->
            /\ Len(path) >= Len(f.prefix)
            /\ SubSeq(path, 1, Len(f.prefix)) = f.prefix
      [] f.filter = "regex" ->
            /\ Len(path) = 5
            /\ path[1] = "nix" /\ path[2] = "store"
            /\ path[3] \in StoreDirOf(f.tool)
            /\ path[4] = "bin" /\ path[5] = f.tool

RuleMatches(rule, op, path) ==
    /\ rule.op \in {"default", op}
    /\ FilterMatches(rule.filter, path)

\* what the kernel answers: the last matching rule of the profile
Decision(profile, op, path) ==
    LET hits == {n \in 1..Len(profile) : RuleMatches(profile[n], op, path)}
    IN profile[CHOOSE n \in hits : \A k \in hits : k <= n].action

InitSandbox ==
    \E kind \in Tools :
        sandbox = [kind |-> kind, attempts |-> 0, allowed |-> {}, denied |-> {}]

\* the tool (or code it loads) tries an operation on a path
Attempt(op, path) ==
    /\ sandbox.attempts < MaxAttempts
    /\ sandbox' =
         IF Decision(ProfileOf(sandbox.kind), op, path) = "allow"
         THEN [sandbox EXCEPT !.attempts = @ + 1,
                              !.allowed = @ \cup {<<op, path>>}]
         ELSE [sandbox EXCEPT !.attempts = @ + 1,
                              !.denied = @ \cup {<<op, path>>}]
    /\ UNCHANGED <<hashVars, extVars, runVars, concVars, located, child, lint, pipe, opens>>

NextSandbox == \E op \in Operations, path \in SandboxPaths : Attempt(op, path)
StartSandbox == IdleHash /\ IdleExt /\ IdleRun /\ IdleConc /\ IdleWhich /\ IdleExec /\ IdleLint /\ IdlePipe /\ IdleOpen /\ InitSandbox
SpecSandbox == StartSandbox /\ [][NextSandbox]_vars

----------------------------------------------------------------------------
(* SpecExec: one child process run by exec() (exec.rs) or by fourmolu(),    *)
(* nixfmt() (format.rs) or hlint() (lint.rs), from the spawn to the value   *)
(* the function returns.                                                    *)

Invokers == {"exec", "fourmolu", "nixfmt", "hlint"}

\* std::process::ExitStatus on unix: exited with a code, killed by a
\* signal, or neither
ExitCodes == {0, 1, 2}
Signals == {9, 15}
Statuses ==
    {[how |-> "exited", code |-> c] : c \in ExitCodes}
        \cup {[how |-> "signaled", signal |-> s] : s \in Signals}
        \cup {[how |-> "other"]}

\* what the pipes captured: the bytes and, for stdout under hlint --json,
\* the list serde_json reads from them (None: not a list of hints)
Captured(bytes, json) == [bytes |-> bytes, json |-> json]
OneHint ==
    <<[file |-> "-", start_line |-> 1, severity |-> "Warning",
       hint |-> "Use foldr"]>>
Stdouts ==
    {Captured(<<>>, None),
     Captured(<<0>>, Some(to_json(<<>>))),
     Captured(<<1>>, Some(to_json(OneHint)))}
Stderrs == {<<>>, <<1>>}

\* (variant: every normal exit counts as success)
success_any_code(status) == status.how = "exited"

\* ExitStatus::success
success(status) == status.how = "exited" /\ status.code = 0

\* ExitStatus::code
code(status) == IF status.how = "exited" THEN Some(status.code) ELSE None

\* ExitStatusExt::signal
signal(status) == IF status.how = "signaled" THEN Some(status.signal) ELSE None

\* eyre::bail!
bail(message) == [ok |-> FALSE, error |-> message]

\* the `if !output.status.success() { .. }` block of exec, fourmolu, nixfmt
\* and hlint: None when the block is passed
exit_error(program, output) ==
    IF ~success(output.status)
    THEN IF code(output.status).some
         THEN Some(bail([what |-> "exited with code", program |-> program,
                         code |-> code(output.status).value,
                         stderr |-> output.stderr.bytes]))
         ELSE IF signal(output.status).some
         THEN Some(bail([what |-> "was terminated by signal",
                         program |-> program,
                         signal |-> signal(output.status).value]))
         ELSE Some(bail([what |-> "died of unknown causes",
                         program |-> program]))
    ELSE None

\* hlint after the block: serde_json::from_slice(&output.stdout)?, then
\* hint.file := path
hlint_hints(path, stdout) ==
    IF stdout.json.some
    THEN Ok([i \in 1..Len(stdout.json.value) |->
                [from_json(stdout.json.value)[i] EXCEPT !.file = path]])
    ELSE bail([what |-> "json", program |-> "hlint"])

\* what the function returns once wait_with_output (exec: output) gave
\* `output`
returned(invoker, path, output) ==
    LET error == exit_error(invoker, output)
    IN IF error.some THEN error.value
       ELSE IF invoker = "hlint" THEN hlint_hints(path, output.stdout)
       ELSE Ok(output.stdout.bytes)

InitExec ==
    \E invoker \in Invokers :
        child = [invoker |-> invoker, path |-> "A.hs", pc |-> "spawn",
                 output |-> None, result |-> None]

\* Command::spawn succeeds; exec() pipes nothing in and goes on to wait
ExecSpawn ==
    /\ child.pc = "spawn"
    /\ child' = [child EXCEPT !.pc = IF child.invoker = "exec" THEN "wait"
                                     ELSE "stdin"]
    /\ UNCHANGED <<hashVars, extVars, runVars, concVars, located, sandbox, lint, pipe, opens>>

\* Command::spawn returns Err
ExecSpawnFails ==
    /\ child.pc = "spawn"
    /\ child' = [child EXCEPT !.pc = "returned",
                              !.result = Some(bail([what |-> "io"]))]
    /\ UNCHANGED <<hashVars, extVars, runVars, concVars, located, sandbox, lint, pipe, opens>>

\* stdin.write_all, flush, drop(stdin)
ExecStdin ==
    /\ child.pc = "stdin"
    /\ child' = [child EXCEPT !.pc = "wait"]
    /\ UNCHANGED <<hashVars, extVars, runVars, concVars, located, sandbox, lint, pipe, opens>>

\* write_all or flush returns Err (the child closed its end)
ExecStdinFails ==
    /\ child.pc = "stdin"
    /\ child' = [child EXCEPT !.pc = "returned",
                              !.result = Some(bail([what |-> "io"]))]
    /\ UNCHANGED <<hashVars, extVars, runVars, concVars, located, sandbox, lint, pipe, opens>>

\* the child ends and wait_with_output returns Ok(output)
ExecChildEnds ==
    /\ child.pc = "wait"
    /\ \E status \in Statuses, stdout \in Stdouts, stderr \in Stderrs :
           child' = [child EXCEPT
                        !.pc = "output",
                        !.output = Some([status |-> status, stdout |-> stdout,
                                         stderr |-> Captured(stderr, None)])]
    /\ UNCHANGED <<hashVars, extVars, runVars, concVars, located, sandbox, lint, pipe, opens>>

\* wait_with_output returns Err
ExecWaitFails ==
    /\ child.pc = "wait"
    /\ child' = [child EXCEPT !.pc = "returned",
                              !.result = Some(bail([what |-> "io"]))]
    /\ UNCHANGED <<hashVars, extVars, runVars, concVars, located, sandbox, lint, pipe, opens>>

\* the rest of the function
ExecReturn ==
    /\ child.pc = "output"
    /\ child' = [child EXCEPT
                    !.pc = "returned",
                    !.result = Some(returned(child.invoker, child.path,
                                             child.output.value))]
    /\ UNCHANGED <<hashVars, extVars, runVars, concVars, located, sandbox, lint, pipe, opens>>

NextExec ==
    \/ ExecSpawn
    \/ ExecSpawnFails
    \/ ExecStdin
    \/ ExecStdinFails
    \/ ExecChildEnds
    \/ ExecWaitFails
    \/ ExecReturn
StartExec == IdleHash /\ IdleExt /\ IdleRun /\ IdleConc /\ IdleWhich /\ IdleSandbox /\ IdleLint /\ IdlePipe /\ IdleOpen /\ InitExec
SpecExec == StartExec /\ [][NextExec]_vars

----------------------------------------------------------------------------
(* SpecLint: lint_haskell (lint.rs) run on one path after another of a      *)
(* work tree with two Haskell files, over one hlint table.  The hlint       *)
(* version and configuration files stay as they are.                        *)

MaxLints == 3

LintPaths == {"A.hs", "B.hs"}

\* the OnceCells of Cache once hlint_version and hlint_configs are set
LintMemo ==
    [NewCache EXCEPT
        !.hlint_version = Some("1.0"),
        !.hlint_configs =
            Some([copies |-> <<>>,
                  hash |-> hasher_finish(
                      hlint_configs_hasher(<<>>, hasher_default))])]

\* the store with the given hlint table
LintStore(table) == [t \in Tables |-> IF t = "hlint" THEN table ELSE EmptyTable]

NoLint ==
    [pc |-> "idle", path |-> "none", input_bytes |-> <<>>, input_hash |-> 0,
     hit |-> FALSE, hints |-> <<>>, printed |-> <<>>]

InitLint ==
    /\ lint \in [file : [LintPaths -> Contents], hlint : {EmptyTable},
                 unit : {NoLint}, units : {0}]

\* read_file(path)
LintRead(path) ==
    /\ lint.unit.pc \in {"idle", "done"}
    /\ lint.units < MaxLints
    /\ LET in == read_file(lint.file[path])
       IN lint' = [lint EXCEPT
                      !.units = @ + 1,
                      !.unit = [NoLint EXCEPT !.pc = "read", !.path = path,
                                              !.input_bytes = in[1],
                                              !.input_hash = in[2]]]
    /\ UNCHANGED <<hashVars, extVars, runVars, concVars, located, sandbox,
                   child, pipe, opens>>

\* is_haskell_linted returns Some(hints): each is printed, Ok(Some(false))
LintCached ==
    /\ lint.unit.pc = "read"
    /\ LET found == is_haskell_linted(LintStore(lint.hlint), LintMemo,
                                      lint.unit.input_hash)
       IN /\ found.some
          /\ lint' = [lint EXCEPT !.unit.pc = "done", !.unit.hit = TRUE,
                                  !.unit.hints = found.value,
                                  !.unit.printed = found.value]
    /\ UNCHANGED <<hashVars, extVars, runVars, concVars, located, sandbox,
                   child, pipe, opens>>

\* is_haskell_linted returns None: hlint(Some(path), input_bytes), and each
\* hint is printed
LintRun ==
    /\ lint.unit.pc = "read"
    /\ ~is_haskell_linted(LintStore(lint.hlint), LintMemo,
                          lint.unit.input_hash).some
    /\ LET hints == hlint_tool(LintMemo.hlint_version.value,
                               LintMemo.hlint_configs.value.copies,
                               lint.unit.path, lint.unit.input_bytes)
       IN lint' = [lint EXCEPT !.unit.pc = "linted", !.unit.hints = hints,
                               !.unit.printed = hints]
    /\ UNCHANGED <<hashVars, extVars, runVars, concVars, located, sandbox,
                   child, pipe, opens>>

\* mark_haskell_linted(input_hash, &hints), Ok(Some(true))
LintMark ==
    /\ lint.unit.pc = "linted"
    /\ LET r == mark_haskell_linted(LintStore(lint.hlint), LintMemo,
                                    lint.unit.input_hash, lint.unit.hints)
       IN lint' = [lint EXCEPT !.unit.pc = "done", !.hlint = r.db["hlint"]]
    /\ UNCHANGED <<hashVars, extVars, runVars, concVars, located, sandbox,
                   child, pipe, opens>>

\* between two units a file of the work tree is edited
LintEdit ==
    /\ lint.unit.pc \in {"idle", "done"}
    /\ lint.units < MaxLints
    /\ \E path \in LintPaths, c \in Contents :
           /\ c # lint.file[path]
           /\ lint' = [lint EXCEPT !.file[path] = c]
    /\ UNCHANGED <<hashVars, extVars, runVars, concVars, located, sandbox,
                   child, pipe, opens>>

NextLint ==
    \/ \E path \in LintPaths : LintRead(path)
    \/ LintEdit
    \/ LintCached
    \/ LintRun
    \/ LintMark

StartLint ==
    IdleHash /\ IdleExt /\ IdleRun /\ IdleConc /\ IdleWhich /\ IdleSandbox
        /\ IdleExec /\ IdlePipe /\ IdleOpen /\ InitLint
SpecLint == StartLint /\ [][NextLint]_vars

----------------------------------------------------------------------------
(* SpecPipe: one tool invocation of fourmolu(), nixfmt() (format.rs) or     *)
(* hlint() (lint.rs) and its child, joined by the stdin and the stdout      *)
(* pipe.  A pipe holds at most PipeCapacity bytes: a write to a full pipe   *)
(* and a read from an empty open pipe wait.  The child takes one byte of    *)
(* its input at a time and writes the byte it makes of it before it reads   *)
(* on.  Bytes are counted, not told apart.                                  *)

PipeCapacity == 2
MaxInput == 8

InitPipe ==
    pipe \in [input : 0..MaxInput, pc : {"write_all"}, written : {0},
              stdin : {0}, stdin_open : {TRUE}, taken : {0}, pending : {0},
              stdout : {0}, exited : {FALSE}, collected : {0}]

\* stdin.write_all(&bytes): the pipe accepts some of the bytes left
PipeWrite ==
    /\ pipe.pc = "write_all"
    /\ pipe.written < pipe.input
    /\ pipe.stdin < PipeCapacity
    /\ \E k \in 1..Min(pipe.input - pipe.written, PipeCapacity - pipe.stdin) :
           pipe' = [pipe EXCEPT !.written = @ + k, !.stdin = @ + k]
    /\ UNCHANGED <<hashVars, extVars, runVars, concVars, located, sandbox,
                   child, lint, opens>>

\* write_all has written every byte: flush, drop(stdin), and
\* child.wait_with_output() starts
PipeClose ==
    /\ pipe.pc = "write_all"
    /\ pipe.written = pipe.input
    /\ pipe' = [pipe EXCEPT !.pc = "wait_with_output", !.stdin_open = FALSE]
    /\ UNCHANGED <<hashVars, extVars, runVars, concVars, located, sandbox,
                   child, lint, opens>>

\* the child reads a byte of its stdin
ChildRead ==
    /\ ~pipe.exited
    /\ pipe.pending = 0
    /\ pipe.stdin > 0
    /\ pipe' = [pipe EXCEPT !.stdin = @ - 1, !.taken = @ + 1, !.pending = 1]
    /\ UNCHANGED <<hashVars, extVars, runVars, concVars, located, sandbox,
                   child, lint, opens>>

\* the child writes the byte it made to its stdout
ChildWrite ==
    /\ ~pipe.exited
    /\ pipe.pending > 0
    /\ pipe.stdout < PipeCapacity
    /\ pipe' = [pipe EXCEPT !.pending = @ - 1, !.stdout = @ + 1]
    /\ UNCHANGED <<hashVars, extVars, runVars, concVars, located, sandbox,
                   child, lint, opens>>

\* the child reads end of input and exits: its stdout is closed
ChildExit ==
    /\ ~pipe.exited
    /\ pipe.pending = 0
    /\ pipe.stdin = 0
    /\ ~pipe.stdin_open
    /\ pipe' = [pipe EXCEPT !.exited = TRUE]
    /\ UNCHANGED <<hashVars, extVars, runVars, concVars, located, sandbox,
                   child, lint, opens>>

\* wait_with_output reads what the stdout pipe holds
PipeCollect ==
    /\ pipe.pc = "wait_with_output"
    /\ pipe.stdout > 0
    /\ \E k \in 1..pipe.stdout :
           pipe' = [pipe EXCEPT !.stdout = @ - k, !.collected = @ + k]
    /\ UNCHANGED <<hashVars, extVars, runVars, concVars, located, sandbox,
                   child, lint, opens>>

\* wait_with_output returns: the child exited and its stdout read to the end
PipeReturn ==
    /\ pipe.pc = "wait_with_output"
    /\ pipe.exited
    /\ pipe.stdout = 0
    /\ pipe' = [pipe EXCEPT !.pc = "returned"]
    /\ UNCHANGED <<hashVars, extVars, runVars, concVars, located, sandbox,
                   child, lint, opens>>

NextPipe ==
    \/ PipeWrite
    \/ PipeClose
    \/ ChildRead
    \/ ChildWrite
    \/ ChildExit
    \/ PipeCollect
    \/ PipeReturn

StartPipe ==
    IdleHash /\ IdleExt /\ IdleRun /\ IdleConc /\ IdleWhich /\ IdleSandbox
        /\ IdleExec /\ IdleLint /\ IdleOpen /\ InitPipe

\* the kernel and the runtime run whichever of the two processes can move
SpecPipe == StartPipe /\ [][NextPipe]_vars /\ WF_vars(NextPipe)

----------------------------------------------------------------------------
(* SpecOpen: two processes of one build in Cache::new (cache.rs) on the     *)
(* same cache.sqlite, which is missing or holds another build's identity.   *)
(* Each statement is its own transaction; the statements of the two         *)
(* processes run in any order.                                              *)

Openers == {1, 2}

\* BE_BINARY_ID of the two processes, and of the build that wrote the store
OpenBuild == CHOOSE id \in BuildIds : TRUE
OtherBuild == CHOOSE id \in BuildIds : id # OpenBuild

\* create_if_missing(true): a missing store is opened as an empty database
MissingStore == [t \in Tables |-> NoTable]

\* the store another build left
MismatchedStore ==
    [t \in Tables |->
        IF t = "be_binary_id"
        THEN [exists |-> TRUE, rows |-> {[be_binary_id |-> to_string(OtherBuild)]}]
        ELSE EmptyTable]

InitOpen ==
    opens \in [db : {MissingStore, MismatchedStore},
               main : {[p \in Openers |-> "valid_create"]},
               stmt : {[p \in Openers |-> 1]}]

\* sqlite_valid: create table if not exists be_binary_id
OpenValidCreate(p) ==
    /\ opens.main[p] = "valid_create"
    /\ opens' = [opens EXCEPT
                    !.db = create_table_if_not_exists(@, "be_binary_id").db,
                    !.main[p] = "valid_query"]
    /\ UNCHANGED <<hashVars, extVars, runVars, concVars, located, sandbox,
                   child, lint, pipe>>

\* sqlite_valid: the two selects, and the branch of Cache::new on the result
OpenValidQuery(p) ==
    /\ opens.main[p] = "valid_query"
    /\ opens' = [opens EXCEPT
                    !.main[p] = IF sqlite_valid(opens.db, OpenBuild)
                                THEN "opened" ELSE "reset"]
    /\ UNCHANGED <<hashVars, extVars, runVars, concVars, located, sandbox,
                   child, lint, pipe>>

\* sqlite_reset: its next statement; an error leaves Cache::new by `?`
OpenResetStatement(p) ==
    /\ opens.main[p] = "reset"
    /\ LET r == sqlite_reset_statement(opens.db, ResetScript[opens.stmt[p]],
                                       OpenBuild)
       IN opens' = [opens EXCEPT
                       !.db = r.db,
                       !.main[p] = IF ~r.ok THEN "failed"
                                   ELSE IF opens.stmt[p] = Len(ResetScript)
                                   THEN "opened" ELSE "reset",
                       !.stmt[p] = IF r.ok THEN @ + 1 ELSE @]
    /\ UNCHANGED <<hashVars, extVars, runVars, concVars, located, sandbox,
                   child, lint, pipe>>

NextOpen ==
    \/ \E p \in Openers : OpenValidCreate(p)
    \/ \E p \in Openers : OpenValidQuery(p)
    \/ \E p \in Openers : OpenResetStatement(p)

StartOpen ==
    IdleHash /\ IdleExt /\ IdleRun /\ IdleConc /\ IdleWhich /\ IdleSandbox
        /\ IdleExec /\ IdleLint /\ IdlePipe /\ InitOpen
SpecOpen == StartOpen /\ [][NextOpen]_vars

----------------------------------------------------------------------------
(* The claims.                                                              *)

\* the store as Cache::new found it held exactly the running build's identity
ValidAtStart ==
    db0["be_binary_id"] =
        [exists |-> TRUE, rows |-> {[be_binary_id |-> to_string(build)]}]

\* the configuration bytes the running process memoized for a tool kind
CurrentConfig(kind) ==
    CASE kind = "fourmolu" -> <<memo.fourmolu_config.value.copy>>
      [] kind = "nixfmt" -> <<>>
      [] kind = "hlint" -> memo.hlint_configs.value.copies

\* C1: for every tool kind, a unit whose key (current version, config
\* fingerprints, source fingerprint) is already a row of the tool's table
\* ends Cached: the tool is not invoked and the file is reported unchanged.
C1_RecordedKeyIsCached ==
    task.had_row =>
        /\ task.invoked = 0
        /\ task.pc \in {"emit", "done"}
        /\ (task.pc = "done" /\ task.mode = "file") => task.result = "unchanged"

\* C2: for fourmolu and hlint, a lookup made after the configuration files
\* changed misses: a hit implies that a key was recorded while the
\* configuration files held the bytes they hold in this run.
C2_ConfigChangeForcesMiss ==
    (task.found /\ task.kind \in {"fourmolu", "hlint"}) =>
        \E g \in recorded :
            g.kind = task.kind /\ g.config = CurrentConfig(task.kind)

\* C3: every source fingerprint in a formatter table is the fingerprint of
\* bytes the formatter leaves as they are (its output equals its input).
C3_RecordedIsFormatted ==
    \A g \in recorded :
        (/\ g.kind \in Formatters
         /\ \E row \in db[g.kind].rows :
                /\ row.version = g.version
                /\ row.source_hash = to_string(read_file(g.source)[2]))
            => g.output = g.source

\* C4: after mark_haskell_formatted(source_hash) returned without error, 
\* is_haskell_formatted(source_hash) under the same version, config hash and
\* extensions hash returns true.
C4_RecordThenLookup ==
    (task.kind = "fourmolu" /\ task.pc = "marked") =>
        is_haskell_formatted(db, memo, task.input_hash)

\* C5: the fingerprint read_stdin/read_file returns depends on the bytes
\* only: two reads of the same bytes end with the same hash, however the
\* reader split them.
C5_HashOfBytesOnly ==
    (readerA.eof /\ readerB.eof) => hash(readerA) = hash(readerB)

\* C6: two different extension lists feed different byte sequences to the
\* extensions hasher (and so get different fingerprints).
C6_ExtensionListsDiffer ==
    (ExtLoopDone(extsA) /\ ExtLoopDone(extsB) /\ extsA.list # extsB.list)
        => extsA.hasher # extsB.hasher

\* C7: a lookup answers Found only if the table holds a row with the
\* installed tool version, the current config fingerprints and the
\* fingerprint of the input; and that key was recorded for the same version
\* and the same source bytes.
C7_HitIsSound ==
    task.found =>
        /\ \E row \in db[task.kind].rows :
               /\ row.version = installed[task.kind]
               /\ row.source_hash = to_string(task.input_hash)
               /\ task.kind = "fourmolu" =>
                      /\ row.config_hash = to_string(file_hash(fourmolu_yaml))
                      /\ row.extensions_hash =
                             to_string(extensions_hash(NewExtLoop(default_extensions)))
               /\ task.kind = "hlint" =>
                      row.configs_hash =
                          to_string(hasher_finish(
                              hlint_configs_hasher(hlint_files, hasher_default)))
        /\ \E g \in recorded :
               /\ g.kind = task.kind
               /\ g.version = installed[task.kind]
               /\ g.source = task.input_bytes

\* C7 witness: a hit in a second run, on a key the first run recorded
C7_Witness == task.found /\ runs = 2 /\ task.kind = "fourmolu"

\* C8: when Cache::new finds a store that does not hold exactly the running
\* build's identity, then once it has returned every tool table exists and
\* is empty and the identity table holds the build's identity and no other.
C8_ResetCorrect ==
    (main = "opened" /\ ~ValidAtStart) =>
        /\ \A t \in ToolTables : db[t] = EmptyTable
        /\ db["be_binary_id"] =
               [exists |-> TRUE, rows |-> {[be_binary_id |-> to_string(build)]}]

\* C8 witness: a store of another build, with rows, has been reset
C8_Witness ==
    /\ main = "opened"
    /\ ~ValidAtStart
    /\ db0["be_binary_id"].rows # {}
    /\ \E t \in ToolTables : db0[t].rows # {}

C10_ReuseOrFullReset ==
    main = "opened" =>
        /\ ValidAtStart <=> stmt = 1
        /\ ValidAtStart => \A t \in ToolTables : db[t] = db0[t]
        /\ ~ValidAtStart =>
               /\ stmt = Len(ResetScript) + 1
               /\ \A t \in ToolTables : db[t] = EmptyTable

\* C10 witness: a store with rows is reused by the build that wrote them
C10_Witness ==
    /\ main = "opened"
    /\ ValidAtStart
    /\ \E t \in ToolTables : db[t].rows # {}

\* C18: on every miss whose tool invocation succeeds the key is recorded
\* after the invocation, in file mode and in stdin mode: a unit that ended
\* after one successful invocation has made a record call for its input.
C18_MissIsRecorded ==
    (task.pc = "done" /\ task.invoked = 1) =>
        \E g \in recorded :
            /\ g.kind = task.kind
            /\ g.version = installed[task.kind]
            /\ g.source = task.input_bytes

\* C20: the hints hlint returned for a source with no row are stored in one
\* row, and a lookup under the same version, configs hash and source hash
\* returns an equal list (Some(<<>>) for no hints, which is not None); a
\* later hit prints the hints a recorded run of hlint produced.
C20_HintsRoundTrip ==
    /\ (task.kind = "hlint" /\ task.pc = "marked" /\ ~task.had_row) =>
           /\ is_haskell_linted(db, memo, task.input_hash) = Some(task.hints)
           /\ Cardinality({row \in db["hlint"].rows :
                   /\ row.version = memo.hlint_version.value
                   /\ row.configs_hash = to_string(memo.hlint_configs.value.hash)
                   /\ row.source_hash = to_string(task.input_hash)}) = 1
    /\ (task.kind = "hlint" /\ task.found) =>
           \E g \in recorded :
               /\ g.kind = "hlint"
               /\ task.printed =
                      hlint_tool(g.version, g.config, task.path, g.source)

\* C20 witness: a second run prints two stored hints, in their order
C20_Witness ==
    /\ task.kind = "hlint"
    /\ task.found
    /\ runs = 2
    /\ Len(task.printed) = 2
    /\ task.printed[1] # task.printed[2]

\* the first writer, in the order the inserts ran, with the source hash of i
FirstWriter(i) ==
    race.order[CHOOSE n \in 1..Len(race.order) :
                   /\ race.w[race.order[n]].input_hash = race.w[i].input_hash
                   /\ \A k \in 1..(n - 1) :
                          race.w[race.order[k]].input_hash # race.w[i].input_hash]

\* C11: record calls racing on one key all return without error and leave
\* exactly one row with that key; in the hlint table the row keeps the hints
\* of the first writer, whatever a later record with the same key carries.
C11_RaceLeavesOneRow ==
    \A i \in Writers :
        race.w[i].pc = "done" =>
            LET rows == RowsWithKey(race.kind, race.store,
                                    Memoized(race.kind, NewCache),
                                    race.w[i].input_hash)
            IN /\ race.w[i].ok
               /\ Cardinality(rows) = 1
               /\ race.kind = "hlint" =>
                      \A row \in rows :
                          row.hints = to_json(race.w[FirstWriter(i)].hints)

\* C11 witness: both records ran on one key, with different hints
C11_Witness ==
    /\ race.kind = "hlint"
    /\ \A i \in Writers : race.w[i].pc = "done"
    /\ race.w[1].input_hash = race.w[2].input_hash
    /\ race.w[1].hints # race.w[2].hints

\* the callers whose computation of a cell is in flight
InFlight(c) ==
    {i \in Callers : cells.caller[i].pc = "computing" /\ cells.caller[i].cell = c}

\* C12: at no time are two computations of one memoized value in flight,
\* and every caller that is given a value is given the one value the cell
\* holds.
C12_SingleFlight ==
    \A c \in MemoCells :
        /\ Cardinality(InFlight(c)) <= 1
        /\ \A i \in Callers :
               (/\ cells.caller[i].cell = c
                /\ cells.caller[i].pc = "returned"
                /\ cells.caller[i].ok)
                   => cells.cell[c].value = Some(cells.caller[i].value)

\* C12 witness: one caller computes while the other waits on the same cell
C12_Witness ==
    \E i, j \in Callers :
        /\ cells.caller[i].pc = "computing"
        /\ cells.caller[j].pc = "waiting"
        /\ cells.caller[i].cell = cells.caller[j].cell

\* C13: the computation of a tool version (and of a config fingerprint) is
\* executed at most once in a process run, whatever its first outcome.
C13_ComputedOnce == cells.cell["fourmolu_version"].executions <= 1

\* the pcs in which a task is inside read_file, write_file or a tool call
PermitScopes ==
    {"read_open", "read_body", "tool_process", "tool_spawn", "tool_child",
     "tool_release", "write_create", "write_body"}

\* C14: every permit acquired is returned on every exit path: a pool misses
\* exactly the permits of the tasks that are inside read_file, write_file or
\* a tool invocation, and with none in progress both pools are full.
C14_PermitsReturned ==
    /\ pool.file_permits + Cardinality({i \in PoolTasks : pool.t[i].file})
           = pool.files
    /\ pool.process_permits + Cardinality({i \in PoolTasks : pool.t[i].process})
           = pool.processes
    /\ \A i \in PoolTasks :
           (pool.t[i].file \/ pool.t[i].process) => pool.t[i].pc \in PermitScopes
    /\ (\A i \in PoolTasks : pool.t[i].pc \notin PermitScopes) =>
           /\ pool.file_permits = pool.files
           /\ pool.process_permits = pool.processes

\* C14 witness: one task left its tool invocation by an error and another
\* its write_file, and both pools are full again
C14_Witness ==
    \E i, j \in PoolTasks :
        /\ pool.t[i].pc = "failed" /\ pool.t[i].left = "tool_child"
        /\ pool.t[j].pc = "failed" /\ pool.t[j].left = "write_body"
        /\ pool.file_permits = pool.files
        /\ pool.process_permits = pool.processes

\* C15: the children the program has running never outnumber the process
\* permits.
C15_ChildrenBounded == pool.children <= pool.processes

\* C16: the files the program holds open never outnumber the file permits.
C16_OpenFilesBounded == pool.open <= pool.files

\* C17: a reader of the destination gets the complete old content or the
\* complete new content, and the destination leads to the new bytes, all of
\* them written, as soon as the rename is done.
C17_AtomicReplace ==
    /\ disk.r.pc = "done" => disk.r.got \in {disk.old, disk.w.bytes}
    /\ disk.inode[disk.dir[Destination]] \in {disk.old, disk.w.bytes}
    /\ disk.w.pc = "done" =>
           /\ disk.inode[disk.dir[Destination]] = disk.w.bytes
           /\ disk.w.written = Len(disk.w.bytes)

\* C17 witness: the rename is done and a reader that had opened the old file
\* has read all of the old content
C17_Witness ==
    /\ disk.w.pc = "done"
    /\ disk.r.pc = "done"
    /\ disk.r.inode = 1
    /\ disk.r.got = disk.old

\* C19: when a unit of a batch ended with an error the batch does not return
\* Ok and prints no summary line; a summary line counts every unit.
C19_BatchAborts ==
    /\ (\E i \in DOMAIN batch.unit : batch.unit[i] = "error") =>
           /\ batch.result # "ok"
           /\ batch.summary = <<>>
    /\ batch.result = "ok" =>
           batch.summary =
               <<[formatted_count |->
                      Cardinality({i \in DOMAIN batch.unit :
                                       batch.unit[i] = "changed"}),
                  total_count |-> Len(batch.unit)]>>

\* C19 witness: the batch returned the error of its last unit, after
\* counting a changed one
C19_Witness ==
    /\ batch.result = "err"
    /\ Len(batch.unit) >= 2
    /\ batch.next = Len(batch.unit)
    /\ batch.formatted_count >= 1

----------------------------------------------------------------------------
(* Tool location (SpecWhich).                                               *)

\* the binary of the last call is in some directory of $PATH / in .bin
OnPath(b) == \E n \in 1..Len(PathDirs) : located.fs[join(PathDirs[n], b)] # "absent"
InBin(b) == located.fs[join(BinDir, b)] # "absent"

\* the last call returned the binary that sits in one of these directories
ResolvedIn(dirs) ==
    /\ located.result.ok
    /\ \E n \in 1..Len(dirs) :
           LET path == join(dirs[n], located.binary)
           IN /\ located.fs[path] # "absent"
              /\ located.result.value =
                    IF located.fs[path] = "link" THEN "/nix/store" \o path
                    ELSE path

\* the repository root is known: git is on $PATH and rev-parse succeeds
RootKnown == OnPath("git") /\ located.rev_parse

\* C21: a tool present both in <git root>/.bin and on the standard search
\* path resolves to the binary of .bin (the override directory is searched
\* first).
C21_OverrideFirst ==
    (located.calls > 0 /\ RootKnown
        /\ OnPath(located.binary) /\ InBin(located.binary))
    => ResolvedIn(<<BinDir>>)

----------------------------------------------------------------------------
(* The sandbox profiles (SpecSandbox).                                      *)

UnderUsers(path) == path[1] = "Users"

----------------------------------------------------------------------------
(* Failure classification (SpecExec).                                       *)

\* the function has returned and the child's exit status reached it
Classified == child.pc = "returned" /\ child.output.some

ExitedZero ==
    /\ child.output.some
    /\ child.output.value.status = [how |-> "exited", code |-> 0]

\* the classification of a status that is not `exited with 0`
C28_FailureCarries ==
    LET status == child.output.value.status
        error == child.result.value.error
    IN /\ ~child.result.value.ok
       /\ DOMAIN child.result.value = {"ok", "error"}
       /\ status.how = "exited" =>
             /\ error.what = "exited with code"
             /\ error.code = status.code
             /\ error.stderr = child.output.value.stderr.bytes
       /\ status.how = "signaled" =>
             /\ error.what = "was terminated by signal"
             /\ error.signal = status.signal
       /\ status.how = "other" => error.what = "died of unknown causes"

\* C28 as stated: the invocation returns the child's output if and only if
\* the child exits with status zero.
C28_OutputIffExitZero ==
    child.pc = "returned" => (child.result.value.ok <=> ExitedZero)

\* C28, amended: exec, fourmolu and nixfmt return the captured stdout if and
\* only if the child exits with status zero; hlint returns the hints read
\* from the captured stdout (their file set to the path) if and only if the
\* child exits with status zero and that stdout is a JSON list of hints, and
\* a parse error otherwise.  A non-zero code yields an error with the code
\* and the captured stderr, a signal an error with the signal number, any
\* other death a generic error; no failure carries output.
C28_Classification ==
    Classified =>
        IF ExitedZero
        THEN IF child.invoker # "hlint"
             THEN child.result.value = Ok(child.output.value.stdout.bytes)
             ELSE IF child.output.value.stdout.json.some
             THEN /\ child.result.value.ok
                  /\ Len(child.result.value.value) =
                        Len(child.output.value.stdout.json.value)
                  /\ \A i \in 1..Len(child.result.value.value) :
                        child.result.value.value[i].file = child.path
             ELSE /\ ~child.result.value.ok
                  /\ DOMAIN child.result.value = {"ok", "error"}
                  /\ child.result.value.error.what = "json"
        ELSE C28_FailureCarries

\* fourmolu was killed by signal 9 with bytes already on its stdout, and
\* the function returned the signal error
C28_Witness ==
    /\ Classified
    /\ child.invoker = "fourmolu"
    /\ child.output.value.status = [how |-> "signaled", signal |-> 9]
    /\ child.output.value.stdout.bytes = <<1>>
    /\ child.result.value.error.signal = 9

----------------------------------------------------------------------------
(* Permit order, abandoned tasks and progress (SpecPool, SpecPoolFair).     *)

\* C25: in a tool invocation the file permit is taken before the process
\* permit and given back after it: a task that holds a process permit holds
\* a file permit too, and a tool child exists only while its task holds both.
C25_PermitOrder ==
    \A i \in PoolTasks :
        /\ pool.t[i].process => pool.t[i].file
        /\ pool.t[i].pc = "tool_child" => pool.t[i].file /\ pool.t[i].process
        /\ pool.t[i].pc = "tool_process" => pool.t[i].file

\* a child has exited and its task has given back the process permit while
\* it still holds the file permit
C25_Witness ==
    \E i \in PoolTasks :
        /\ pool.t[i].pc = "tool_release"
        /\ pool.t[i].left = "none"
        /\ pool.t[i].file
        /\ ~pool.t[i].process
        /\ pool.process_permits = pool.processes

\* C23: when the run halts on a unit's error every task still in flight is
\* dropped and its child is killed; after the run has ended (by an error or
\* with every unit finished) no child is running.
C23_NoOrphans ==
    /\ pool.halted =>
          /\ pool.children = 0
          /\ \A k \in PoolTasks : pool.t[k].pc \in {"done", "failed", "dropped"}
    /\ (\A k \in PoolTasks : pool.t[k].pc \in {"done", "failed"}) =>
          pool.children = 0

\* the run halted on one unit's error while another unit's tool child was
\* running, and no child is left
C23_Witness ==
    /\ pool.halted
    /\ pool.children = 0
    /\ \E i, k \in PoolTasks :
          /\ pool.t[i].pc = "failed"
          /\ pool.t[k].pc = "dropped"
          /\ pool.t[k].left = "tool_child"


\* the pcs at which a task waits in Semaphore::acquire
FileWaits == {"read_wait", "tool_file", "write_wait"}
ProcessWaits == {"tool_process"}

\* task i waits for a permit that task j holds
WaitsFor(i, j) ==
    \/ pool.t[i].pc \in FileWaits /\ pool.file_permits = 0 /\ pool.t[j].file
    \/ pool.t[i].pc \in ProcessWaits /\ pool.process_permits = 0
          /\ pool.t[j].process

\* no task that holds a permit waits for a permit of a task that waits too
NoWaitCycle ==
    \A i, j \in PoolTasks :
        (pool.t[i].file \/ pool.t[i].process) /\ WaitsFor(i, j)
            => pool.t[j].pc \notin FileWaits \cup ProcessWaits

\* C30: permit acquisition never deadlocks: a task that waits for a file
\* permit or a process permit gets it (or the run has halted on an error and
\* dropped the task), given that every child exits; and no task holding a
\* permit waits for a permit held by a task that is itself waiting.
C30_NoDeadlock ==
    /\ []NoWaitCycle
    /\ \A i \in PoolTasks :
          /\ (pool.t[i].pc \in FileWaits)
                ~> (pool.t[i].file \/ pool.t[i].pc = "dropped")
          /\ (pool.t[i].pc \in ProcessWaits)
                ~> (pool.t[i].process \/ pool.t[i].pc = "dropped")

\* a task that holds a file permit waits for the process permit of a task
\* whose child is running, while the file pool is not exhausted
C30_Witness ==
    \E i, j \in PoolTasks :
        /\ pool.t[i].pc = "tool_process"
        /\ pool.t[i].file
        /\ pool.process_permits = 0
        /\ pool.t[j].pc = "tool_child"
        /\ WaitsFor(i, j)

----------------------------------------------------------------------------
(* Write-back and tally (SpecBatch).                                        *)

\* the file of unit i is as it was when the batch started
Untouched(i) == batch.file[i] = batch.before[i]

\* C26: a formatter unit writes the file and counts as changed exactly when
\* its lookup missed and the tool's output differs from the input; a hit and
\* a miss with identical output leave the file untouched and count as
\* unchanged; a batch that returns Ok has waited for every unit and reports
\* total = the number of paths and changed = the number of units that wrote.
C26_WriteBackAndTally ==
    batch.kind \in Formatters =>
        /\ \A i \in DOMAIN batch.unit :
              LET r == batch.run[i]
              IN /\ batch.unit[i] # "running" => r.input = batch.before[i]
                 /\ batch.unit[i] = "changed" <=> r.wrote
                 /\ r.wrote =>
                       /\ ~r.hit
                       /\ r.output # r.input
                       /\ batch.file[i] = r.output
                 /\ batch.unit[i] = "unchanged" =>
                       /\ r.hit \/ r.output = r.input
                       /\ Untouched(i)
                 /\ (batch.unit[i] # "running" /\ ~r.failed
                       /\ ~r.hit /\ r.output # r.input) => r.wrote
                 /\ batch.unit[i] \in {"running", "error"} => Untouched(i)
        /\ batch.result = "ok" =>
              /\ \A i \in DOMAIN batch.unit :
                    batch.unit[i] \in {"changed", "unchanged"}
              /\ batch.summary =
                    <<[formatted_count |->
                          Cardinality({i \in DOMAIN batch.unit :
                                          batch.run[i].wrote}),
                       total_count |-> Len(batch.unit)]>>

\* a batch of three paths returned Ok with `1 of 3`: a hit, a miss whose
\* output is the input, and a miss that was written back
C26_Witness ==
    /\ batch.kind = "fourmolu"
    /\ batch.result = "ok"
    /\ Len(batch.unit) = 3
    /\ batch.run[1].hit
    /\ ~batch.run[2].hit /\ batch.run[2].output = batch.run[2].input
    /\ batch.run[3].wrote /\ batch.file[3] = <<1>>
    /\ batch.summary = <<[formatted_count |-> 1, total_count |-> 3]>>

----------------------------------------------------------------------------
(* Stream mode.                                                             *)

StreamUnit == main = "running" /\ task.mode = "stdin"

\* C27: a formatter's stream unit emits exactly its input bytes, without
\* invoking the tool, when the lookup hits, and exactly the tool's output
\* for that input when it misses; a unit that fails emits nothing; and no
\* step of a stream unit changes a source file or a configuration file of
\* the work tree.
C27_StreamMode ==
    /\ [](StreamUnit =>
            /\ task.kind \in Formatters
            /\ task.path \notin Paths
            /\ task.result = "emitted" =>
                  /\ task.found =>
                        task.invoked = 0 /\ task.stdout = task.input_bytes
                  /\ ~task.found =>
                        /\ task.invoked = 1
                        /\ task.stdout =
                               RunTool(task.kind, memo, task.path,
                                       task.input_bytes).output
            /\ task.result # "emitted" => task.stdout = <<>>)
    /\ [][StreamUnit =>
            UNCHANGED <<files, fourmolu_yaml, default_extensions,
                        hlint_files>>]_vars

\* C27 witness: a stream unit has emitted tool output that differs from its
\* input, and the files are still there to be compared
C27_Witness ==
    /\ StreamUnit
    /\ task.result = "emitted"
    /\ ~task.found
    /\ task.stdout # task.input_bytes
    /\ task.stdout # <<>>

----------------------------------------------------------------------------
(* The store between resets.                                                *)

\* the source fingerprints a unit may look up
SourceHashes ==
    {read_file(c)[2] : c \in Contents}
        \cup UNION {{in[2] : in \in read_stdin(c)} : c \in Contents}

\* every key a lookup can be made with: the tool kind, the memoized version
\* and configuration fingerprints, the source fingerprint
StoreKeys ==
    LET fourmolu_memos ==
            {[NewCache EXCEPT
                 !.fourmolu_version = Some(v),
                 !.fourmolu_config = Some([copy |-> c, hash |-> file_hash(c)]),
                 !.fourmolu_extensions =
                     Some([list |-> l,
                           hash |-> extensions_hash(NewExtLoop(l))])] :
                 v \in Versions, c \in ConfigBytes, l \in EnabledLists}
        nixfmt_memos ==
            {[NewCache EXCEPT !.nixfmt_version = Some(v)] : v \in Versions}
        hlint_memos ==
            {[NewCache EXCEPT
                 !.hlint_version = Some(v),
                 !.hlint_configs =
                     Some([copies |-> f,
                           hash |-> hasher_finish(
                               hlint_configs_hasher(f, hasher_default))])] :
                 v \in Versions, f \in HlintFileSets}
    IN {[kind |-> "fourmolu", memo |-> m, source_hash |-> h] :
            m \in fourmolu_memos, h \in SourceHashes}
       \cup {[kind |-> "nixfmt", memo |-> m, source_hash |-> h] :
                m \in nixfmt_memos, h \in SourceHashes}
       \cup {[kind |-> "hlint", memo |-> m, source_hash |-> h] :
                m \in hlint_memos, h \in SourceHashes}

LookupIn(d, k) == Lookup(k.kind, d, k.memo, k.source_hash)

\* C29: a lookup leaves every table as it was; and no step other than a
\* statement of the reset removes or changes a row of a tool table, so that
\* a key whose lookup returns Found keeps returning Found with the same
\* payload, in this run and in later runs, until a reset runs.  (A step
\* that leaves the store as it was keeps every answer.)
C29_AppendOnly ==
    [][/\ (main = "running" /\ task.pc = "read") => db' = db
       /\ (main # "reset" /\ db' # db) =>
             /\ \A t \in ToolTables :
                   db[t].exists =>
                       db'[t].exists /\ db[t].rows \subseteq db'[t].rows
             /\ \A k \in StoreKeys :
                   LookupIn(db, k).some => LookupIn(db', k) = LookupIn(db, k)
      ]_vars

\* C29 witness: a second run of the build that recorded a fourmolu row and
\* an hlint row with hints finds the hlint row again, both rows in place
C29_Witness ==
    /\ runs = 2
    /\ ValidAtStart
    /\ task.kind = "hlint"
    /\ task.found
    /\ task.printed # <<>>
    /\ db["hlint"].rows # {}
    /\ \E k \in StoreKeys : k.kind = "hlint" /\ LookupIn(db, k) = Some(task.printed)

----------------------------------------------------------------------------
(* Diagnostics and the path they name.                                      *)

\* C31: every diagnostic printed by the lint unit of a path names that path
\* as its file, after a fresh run of hlint and after a hit, a hit on a row
\* recorded for another path with the same bytes included.
C31_HintsNamePath ==
    \A i \in DOMAIN lint.unit.printed :
        lint.unit.printed[i].file = lint.unit.path

----------------------------------------------------------------------------
(* A tool invocation that fails.                                            *)

\* C32: a per-file unit whose tool invocation returned an error has recorded
\* nothing and written nothing: its key has a row only if it had one when
\* the unit looked it up, the file holds the bytes the unit read, and the
\* unit holds no output and has emitted none.
C32_FailureLeavesAll ==
    (main = "running" /\ task.pc = "failed" /\ task.invoked = 1) =>
        /\ KeyRecorded(task.kind, db, memo, task.input_hash) = task.had_row
        /\ task.mode = "file" => files[task.path] = task.input_bytes
        /\ task.output = <<>>
        /\ task.stdout = <<>>

\* C32 witness: fourmolu failed on a file that is not in its style and whose
\* key has no row, in a run whose store holds rows of other keys
C32_Witness ==
    /\ main = "running"
    /\ task.pc = "failed"
    /\ task.invoked = 1
    /\ task.mode = "file"
    /\ ~task.had_row
    /\ task.kind = "fourmolu"
    /\ db["fourmolu"].rows # {}
    /\ fourmolu_tool(installed["fourmolu"], memo.fourmolu_config.value.copy,
                     memo.fourmolu_extensions.value.list, task.input_bytes)
           # task.input_bytes

----------------------------------------------------------------------------
(* Feeding a child.                                                         *)

\* C33: a tool invocation always eventually has written every input byte,
\* closed the child's stdin and received the child's whole output.
C33_FeedCompletes ==
    <>(/\ pipe.pc = "returned"
       /\ pipe.written = pipe.input
       /\ ~pipe.stdin_open
       /\ pipe.collected = pipe.input)

----------------------------------------------------------------------------
(* Two opens at once.                                                       *)

OpensEnded == \A p \in Openers : opens.main[p] \in {"opened", "failed"}

\* C34: when two processes of one build have opened a missing or mismatched
\* store at the same time, both opens returned Ok, every tool table exists
\* and the identity table holds the build's identity and no other row.
C34_OpensConverge ==
    OpensEnded =>
        /\ \A p \in Openers : opens.main[p] = "opened"
        /\ \A t \in ToolTables : opens.db[t].exists
        /\ opens.db["be_binary_id"] =
               [exists |-> TRUE,
                rows |-> {[be_binary_id |-> to_string(OpenBuild)]}]

====
